---- MODULE Spec2Model ----
(***************************************************************************)
(* Session state engine of the risk bot: the SQLite Store (riskbot.py),    *)
(* the command handlers (commands.py) and the turn view renderer.          *)
(*                                                                         *)
(* Tables are modelled as the SQL tables are: `games`, `alliances`,        *)
(* `naps`, `turnmaps` and `nav_messages` are sets of rows, so that a       *)
(* primary key is something the handlers have to maintain; `players`,      *)
(* `turnplayers`, `rolls` and `events` are kept per channel as sequences   *)
(* in the order their ORDER BY clauses return them (joined_at, resp.       *)
(* created_at/id, under a clock that never runs backwards).                *)
(*                                                                         *)
(* User ids are ULID strings compared with Python's <=; they are modelled  *)
(* as the naturals 1..n, which keeps their total order.  The id of the     *)
(* inbound command message (map_message_id, message_id columns) is         *)
(* uninterpreted payload that no handler reads back and is left out.       *)
(***************************************************************************)
EXTENDS Naturals, Integers, Sequences, FiniteSets, TLC

\* ---- bounds of the model -------------------------------------------------
MaxTime == 1        \* the clock int(time.time()) runs over 0..MaxTime
MaxEvents == 4      \* cap on one channel's session events (start, roster, roll, turn)
MaxRelEvents == 3   \* cap on one channel's diplomacy events (alliance_*, nap_*)
MaxRolls == 2       \* cap on the length of one channel's roll log (and its roll events)
MaxTurn == 2        \* cap on the turn counter (and the turn_advance events)
MaxMsgs == 1        \* number of message ids the server hands out
MaxTasks == 2       \* cap on the supervisor tasks that have not finished
MaxNotes == 15      \* cap on one channel's note events
MaxClock == 32      \* the clock of the expiry specifications runs over 0..MaxClock
MaxPings == 2       \* cap on the heartbeat tasks that are live

Channels == {"c1", "c2"}
Users == {1, 2, 3}
NoUser == 0                       \* None: no (or an ambiguous) mention
NameArgs == {"", "Alice"}         \* free args of r.join / r.add
RollValues == {"r1", "r2"}        \* values gen_11_digit can return
None == "None"
Images == {[id |-> "a0", fn |-> "f0"], [id |-> "a1", fn |-> "f1"]}
NoImage == [id |-> None, fn |-> None]   \* pick_image_attachment -> (None, None)
MsgIds == 1..MaxMsgs
TaskIds == 1..MaxTasks

VARIABLES
    games,        \* table games: rows [channel_id, op_user_id, turn_number, map_attachment_id, map_filename]
    players,      \* table players, per channel, ORDER BY joined_at: rows [user_id, player_name]
    rolls,        \* table rolls, per channel, ORDER BY created_at, id: rows [turn_number, user_id, roll_value]
    events,       \* table events, per channel, ORDER BY created_at, id: rows [turn_number, user_id, event_type]
    alliances,    \* table alliances: rows [channel_id, user_a, user_b, status, proposed_by, created_at, updated_at]
    naps,         \* table naps: same shape
    turnmaps,     \* table turnmaps: rows [channel_id, turn_number, map_attachment_id, map_filename]
    turnplayers,  \* table turnplayers, per channel and turn, ORDER BY joined_at: rows [user_id, player_name]
    nav,          \* table nav_messages: rows [message_id, channel_id, displayed_turn, displayed_page, view_type, updated_at]
    nav_cleanup_tasks, \* RiskBot.nav_cleanup_tasks: entries [message_id, task]
    tasks,        \* expiry supervisor tasks that have not finished:
                  \* [id, message_id, channel_id, pc, wake, result, cancelled]
    cleared,      \* message ids whose reactions a clear_reactions request removed
    inflight,     \* the edit_message request handle_nav_react is awaiting (at most one)
    touched,      \* history: per message id, when handle_nav_react last took a reaction
                  \* on it for activity (0 before any)
    pings,        \* the heartbeat tasks (ws_ping_loop) that are live, oldest first:
                  \* each is the time its sleep ends and it sends its next Ping
    rest,         \* the last request_json call: [pc, status, requests, slept]
    self_user_id, \* RiskBot.user_id: the bot's own id once a Ready event told it, NoUser before
    text,         \* what the last call of a renderer returned: [view, full, len, marked]
    ws,           \* where run_forever is: "connecting", "streaming", "failed" or "sleeping"
    backoff,      \* run_forever's backoff, in seconds
    sleep_for,    \* the delay of run_forever's last sleep, in tenths of a second
    nextMsg,      \* next message id the server will hand out
    now,          \* int(time.time())
    reply         \* what the handler dispatched last answered (or returned)

vars == <<games, players, rolls, events, alliances, naps, turnmaps, turnplayers,
          nav, nav_cleanup_tasks, tasks, cleared, inflight, touched, pings, rest, self_user_id, text,
          ws, backoff, sleep_for,
          nextMsg, now, reply>>

\* What no command handler touches.
aux == <<cleared, inflight, touched, pings, rest, self_user_id, text, ws, backoff, sleep_for>>

store == <<games, players, rolls, events, alliances, naps, turnmaps, turnplayers, nav>>

\* ---- small helpers --------------------------------------------------------
\* All but the latest of a sequence (of nothing, nothing).
Front(seq) == IF seq = <<>> THEN <<>> ELSE SubSeq(seq, 1, Len(seq) - 1)

Range(s) == {s[i] : i \in 1..Len(s)}

Max(S) == CHOOSE x \in S : \A y \in S : y <= x

\* A reply: its kind and, where the text carries one, the turn number in it.
Reply(kind) == [kind |-> kind, turn |-> 0]

ReplyTurn(kind, turn) == [kind |-> kind, turn |-> turn]

\* ---- games ----------------------------------------------------------------
game_get(channel_id) == {g \in games : g.channel_id = channel_id}

HasGame(channel_id) == game_get(channel_id) # {}

GameRow(channel_id) == CHOOSE g \in games : g.channel_id = channel_id

\* INSERT INTO games ... turn_number 0.  channel_id is the PRIMARY KEY: on a
\* conflict sqlite3 raises IntegrityError and the table is left as it was.
game_create(channel_id, op_user_id, att) ==
    IF \E g \in games : g.channel_id = channel_id
    THEN games
    ELSE games \cup {[channel_id |-> channel_id, op_user_id |-> op_user_id,
                      turn_number |-> 0,
                      map_attachment_id |-> att.id, map_filename |-> att.fn]}

game_set_map(tbl, channel_id, att) ==
    {IF g.channel_id = channel_id
     THEN [g EXCEPT !.map_attachment_id = att.id, !.map_filename = att.fn]
     ELSE g : g \in tbl}

\* game_inc_turn with an UPDATE that sets the counter to 1 instead of adding 1.
game_inc_turn_to_one(channel_id) ==
    {IF g.channel_id = channel_id
     THEN [g EXCEPT !.turn_number = 1]
     ELSE g : g \in games}

\* UPDATE games SET turn_number = turn_number + 1 WHERE channel_id = ?
game_inc_turn(channel_id) ==
    {IF g.channel_id = channel_id
     THEN [g EXCEPT !.turn_number = g.turn_number + 1]
     ELSE g : g \in games}

is_op(game, user_id) == user_id = game.op_user_id

\* ---- players --------------------------------------------------------------
NormName(arg) == IF arg = "" THEN "Player" ELSE arg

player_in_game(channel_id, user_id) ==
    \E i \in 1..Len(players[channel_id]) : players[channel_id][i].user_id = user_id

\* UPDATE the name of an existing row (joined_at, hence the position, is kept)
\* or INSERT a new row with joined_at = now (hence last in joined_at order).
player_add_or_update(channel_id, user_id, player_name) ==
    LET ps == players[channel_id]
        name == NormName(player_name)
    IN  IF player_in_game(channel_id, user_id)
        THEN [i \in 1..Len(ps) |->
                 IF ps[i].user_id = user_id
                 THEN [ps[i] EXCEPT !.player_name = name] ELSE ps[i]]
        ELSE Append(ps, [user_id |-> user_id, player_name |-> name])

player_remove(channel_id, user_id) ==
    LET Keep(p) == p.user_id # user_id
    IN  SelectSeq(players[channel_id], Keep)

\* ---- events and rolls -----------------------------------------------------
\* event_add with the new row read before the rows that were there.
event_add_front(channel_id, turn_number, user_id, event_type) ==
    [events EXCEPT ![channel_id] =
        <<[turn_number |-> turn_number, user_id |-> user_id,
           event_type |-> event_type]>> \o @]

\* INSERT INTO events; events_for_turn reads ORDER BY created_at, id, the order
\* of insertion while the clock does not run backwards.
event_add(channel_id, turn_number, user_id, event_type) ==
    [events EXCEPT ![channel_id] =
        Append(@, [turn_number |-> turn_number, user_id |-> user_id,
                   event_type |-> event_type])]

events_for_turn(channel_id, turn_number) ==
    LET At(e) == e.turn_number = turn_number
    IN  SelectSeq(events[channel_id], At)

\* roll_add keeping one roll per member and turn: an earlier one is replaced.
roll_add_replacing(channel_id, turn_number, user_id, roll_value) ==
    LET Others(r) == ~(r.turn_number = turn_number /\ r.user_id = user_id)
    IN  [rolls EXCEPT ![channel_id] =
            Append(SelectSeq(@, Others),
                   [turn_number |-> turn_number, user_id |-> user_id,
                    roll_value |-> roll_value])]

roll_add(channel_id, turn_number, user_id, roll_value) ==
    [rolls EXCEPT ![channel_id] =
        Append(@, [turn_number |-> turn_number, user_id |-> user_id,
                   roll_value |-> roll_value])]

\* rolls_for_turn with ORDER BY created_at DESC, id DESC.
rolls_for_turn_desc(channel_id, turn_number) ==
    LET At(r) == r.turn_number = turn_number
        asc == SelectSeq(rolls[channel_id], At)
    IN  [i \in 1..Len(asc) |-> asc[Len(asc) + 1 - i]]

rolls_for_turn(channel_id, turn_number) ==
    LET At(r) == r.turn_number = turn_number
    IN  SelectSeq(rolls[channel_id], At)

RelEventTypes ==
    {"alliance_proposed", "alliance_accepted", "alliance_broken", "alliance_cancelled",
     "nap_proposed", "nap_accepted", "nap_broken", "nap_cancelled"}

\* The caps that keep the append-only event log finite.
EventRoom(channel_id) ==
    Cardinality({i \in 1..Len(events[channel_id]) :
                    events[channel_id][i].event_type \notin RelEventTypes \cup {"note"}})
        < MaxEvents

RelEventRoom(channel_id) ==
    Cardinality({i \in 1..Len(events[channel_id]) :
                    events[channel_id][i].event_type \in RelEventTypes}) < MaxRelEvents

\* ---- alliances ------------------------------------------------------------
\* (user_1, user_2) if user_1 <= user_2 else (user_2, user_1)
\* _canon_pair without the ordering.
canon_pair_as_given(user_1, user_2) == <<user_1, user_2>>

canon_pair(user_1, user_2) ==
    IF user_1 <= user_2 THEN <<user_1, user_2>> ELSE <<user_2, user_1>>

RelRow(channel_id, ua, ub, status, proposed_by, created_at, updated_at) ==
    [channel_id |-> channel_id, user_a |-> ua, user_b |-> ub, status |-> status,
     proposed_by |-> proposed_by, created_at |-> created_at, updated_at |-> updated_at]

\* SELECT * FROM alliances WHERE channel_id=? AND user_a=? AND user_b=?
\* (`tbl` is the alliances table the call finds; the empty set stands for None)
alliance_get(tbl, channel_id, user_1, user_2) ==
    LET p == canon_pair(user_1, user_2)
    IN  {r \in tbl : r.channel_id = channel_id /\ r.user_a = p[1] /\ r.user_b = p[2]}

\* alliance_propose_or_accept accepting a pending row whoever calls.
alliance_propose_or_accept_any(tbl, channel_id, proposer_id, target_id) ==
    LET p == canon_pair(proposer_id, target_id)
        existing == alliance_get(tbl, channel_id, proposer_id, target_id)
    IN  IF existing = {}
        THEN [tbl |-> tbl \cup
                      {RelRow(channel_id, p[1], p[2], "pending", proposer_id, now, now)},
              ret |-> "proposed"]
        ELSE LET row == CHOOSE r \in existing : TRUE
             IN  IF row.status = "accepted"
                 THEN [tbl |-> tbl, ret |-> "already_accepted"]
                 ELSE IF row.status # "pending"
                 THEN [tbl |-> tbl, ret |-> "invalid_state"]
                 ELSE [tbl |-> {IF r.channel_id = channel_id /\ r.user_a = p[1] /\ r.user_b = p[2]
                                THEN [r EXCEPT !.status = "accepted", !.updated_at = now]
                                ELSE r : r \in tbl},
                       ret |-> "accepted"]

\* alliance_propose_or_accept inserting its row with the status "proposed".
alliance_propose_or_accept_proposed(tbl, channel_id, proposer_id, target_id) ==
    LET p == canon_pair(proposer_id, target_id)
        existing == alliance_get(tbl, channel_id, proposer_id, target_id)
    IN  IF existing = {}
        THEN [tbl |-> tbl \cup
                      {RelRow(channel_id, p[1], p[2], "proposed", proposer_id, now, now)},
              ret |-> "proposed"]
        ELSE LET row == CHOOSE r \in existing : TRUE
             IN  IF row.status = "accepted"
                 THEN [tbl |-> tbl, ret |-> "already_accepted"]
                 ELSE IF row.status # "pending"
                 THEN [tbl |-> tbl, ret |-> "invalid_state"]
                 ELSE IF row.proposed_by = proposer_id
                 THEN [tbl |-> tbl, ret |-> "already_pending"]
                 ELSE [tbl |-> {IF r.channel_id = channel_id /\ r.user_a = p[1] /\ r.user_b = p[2]
                                THEN [r EXCEPT !.status = "accepted", !.updated_at = now]
                                ELSE r : r \in tbl},
                       ret |-> "accepted"]

\* alliance_propose_or_accept with the accepting user written into proposed_by.
alliance_propose_or_accept_reassign(tbl, channel_id, proposer_id, target_id) ==
    LET p == canon_pair(proposer_id, target_id)
        existing == alliance_get(tbl, channel_id, proposer_id, target_id)
    IN  IF existing = {}
        THEN [tbl |-> tbl \cup
                      {RelRow(channel_id, p[1], p[2], "pending", proposer_id, now, now)},
              ret |-> "proposed"]
        ELSE LET row == CHOOSE r \in existing : TRUE
             IN  IF row.status = "accepted"
                 THEN [tbl |-> tbl, ret |-> "already_accepted"]
                 ELSE IF row.status # "pending"
                 THEN [tbl |-> tbl, ret |-> "invalid_state"]
                 ELSE IF row.proposed_by = proposer_id
                 THEN [tbl |-> tbl, ret |-> "already_pending"]
                 ELSE [tbl |-> {IF r.channel_id = channel_id /\ r.user_a = p[1] /\ r.user_b = p[2]
                                THEN [r EXCEPT !.status = "accepted", !.proposed_by = proposer_id,
                                               !.updated_at = now]
                                ELSE r : r \in tbl},
                       ret |-> "accepted"]

\* alliance_propose_or_accept with a repeated proposal refreshing updated_at.
alliance_propose_or_accept_touch(tbl, channel_id, proposer_id, target_id) ==
    LET p == canon_pair(proposer_id, target_id)
        existing == alliance_get(tbl, channel_id, proposer_id, target_id)
    IN  IF existing = {}
        THEN [tbl |-> tbl \cup
                      {RelRow(channel_id, p[1], p[2], "pending", proposer_id, now, now)},
              ret |-> "proposed"]
        ELSE LET row == CHOOSE r \in existing : TRUE
             IN  IF row.status = "accepted"
                 THEN [tbl |-> tbl, ret |-> "already_accepted"]
                 ELSE IF row.status # "pending"
                 THEN [tbl |-> tbl, ret |-> "invalid_state"]
                 ELSE IF row.proposed_by = proposer_id
                 THEN [tbl |-> {IF r.channel_id = channel_id /\ r.user_a = p[1] /\ r.user_b = p[2]
                                THEN [r EXCEPT !.updated_at = now]
                                ELSE r : r \in tbl},
                       ret |-> "already_pending"]
                 ELSE [tbl |-> {IF r.channel_id = channel_id /\ r.user_a = p[1] /\ r.user_b = p[2]
                                THEN [r EXCEPT !.status = "accepted", !.updated_at = now]
                                ELSE r : r \in tbl},
                       ret |-> "accepted"]

\* The alliances table after the call and the string the call returns.
alliance_propose_or_accept(tbl, channel_id, proposer_id, target_id) ==
    LET p == canon_pair(proposer_id, target_id)
        existing == alliance_get(tbl, channel_id, proposer_id, target_id)
    IN  IF existing = {}
        THEN [tbl |-> tbl \cup
                      {RelRow(channel_id, p[1], p[2], "pending", proposer_id, now, now)},
              ret |-> "proposed"]
        ELSE LET row == CHOOSE r \in existing : TRUE
             IN  IF row.status = "accepted"
                 THEN [tbl |-> tbl, ret |-> "already_accepted"]
                 ELSE IF row.status # "pending"
                 THEN [tbl |-> tbl, ret |-> "invalid_state"]
                 ELSE IF row.proposed_by = proposer_id
                 THEN [tbl |-> tbl, ret |-> "already_pending"]
                 ELSE [tbl |-> {IF r.channel_id = channel_id /\ r.user_a = p[1] /\ r.user_b = p[2]
                                THEN [r EXCEPT !.status = "accepted", !.updated_at = now]
                                ELSE r : r \in tbl},
                       ret |-> "accepted"]

\* alliance_break with a DELETE that matches accepted rows only.
alliance_break_accepted_only(tbl, channel_id, user_1, user_2) ==
    LET existing == alliance_get(tbl, channel_id, user_1, user_2)
        p == canon_pair(user_1, user_2)
    IN  IF existing = {}
        THEN [tbl |-> tbl, ret |-> "missing"]
        ELSE LET row == CHOOSE r \in existing : TRUE
             IN  [tbl |-> {r \in tbl :
                              ~(r.channel_id = channel_id /\ r.user_a = p[1] /\ r.user_b = p[2]
                                  /\ r.status = "accepted")},
                  ret |-> IF row.status = "accepted" THEN "broken"
                          ELSE IF row.status = "pending" THEN "cancelled_pending"
                          ELSE "removed"]

\* DELETE FROM alliances WHERE channel_id=? AND user_a=? AND user_b=?
alliance_break(tbl, channel_id, user_1, user_2) ==
    LET existing == alliance_get(tbl, channel_id, user_1, user_2)
        p == canon_pair(user_1, user_2)
    IN  IF existing = {}
        THEN [tbl |-> tbl, ret |-> "missing"]
        ELSE LET row == CHOOSE r \in existing : TRUE
             IN  [tbl |-> {r \in tbl :
                              ~(r.channel_id = channel_id /\ r.user_a = p[1] /\ r.user_b = p[2])},
                  ret |-> IF row.status = "accepted" THEN "broken"
                          ELSE IF row.status = "pending" THEN "cancelled_pending"
                          ELSE "removed"]

\* ---- naps -------------------------------------------------------------------
\* SELECT * FROM naps WHERE channel_id=? AND user_a=? AND user_b=?
\* (`tbl` is the naps table the call finds; the empty set stands for None)
nap_get(tbl, channel_id, user_1, user_2) ==
    LET p == canon_pair(user_1, user_2)
    IN  {r \in tbl : r.channel_id = channel_id /\ r.user_a = p[1] /\ r.user_b = p[2]}

\* nap_propose_or_accept without the test of who proposed the pending row.
nap_propose_or_accept_any(tbl, channel_id, proposer_id, target_id) ==
    LET p == canon_pair(proposer_id, target_id)
        existing == nap_get(tbl, channel_id, proposer_id, target_id)
    IN  IF existing = {}
        THEN [tbl |-> tbl \cup
                      {RelRow(channel_id, p[1], p[2], "pending", proposer_id, now, now)},
              ret |-> "proposed"]
        ELSE LET row == CHOOSE r \in existing : TRUE
             IN  IF row.status = "accepted"
                 THEN [tbl |-> tbl, ret |-> "already_accepted"]
                 ELSE IF row.status # "pending"
                 THEN [tbl |-> tbl, ret |-> "invalid_state"]
                 ELSE [tbl |-> {IF r.channel_id = channel_id /\ r.user_a = p[1] /\ r.user_b = p[2]
                                THEN [r EXCEPT !.status = "accepted", !.updated_at = now]
                                ELSE r : r \in tbl},
                       ret |-> "accepted"]


\* The naps table after the call and the string the call returns.
nap_propose_or_accept(tbl, channel_id, proposer_id, target_id) ==
    LET p == canon_pair(proposer_id, target_id)
        existing == nap_get(tbl, channel_id, proposer_id, target_id)
    IN  IF existing = {}
        THEN [tbl |-> tbl \cup
                      {RelRow(channel_id, p[1], p[2], "pending", proposer_id, now, now)},
              ret |-> "proposed"]
        ELSE LET row == CHOOSE r \in existing : TRUE
             IN  IF row.status = "accepted"
                 THEN [tbl |-> tbl, ret |-> "already_accepted"]
                 ELSE IF row.status # "pending"
                 THEN [tbl |-> tbl, ret |-> "invalid_state"]
                 ELSE IF row.proposed_by = proposer_id
                 THEN [tbl |-> tbl, ret |-> "already_pending"]
                 ELSE [tbl |-> {IF r.channel_id = channel_id /\ r.user_a = p[1] /\ r.user_b = p[2]
                                THEN [r EXCEPT !.status = "accepted", !.updated_at = now]
                                ELSE r : r \in tbl},
                       ret |-> "accepted"]

\* DELETE FROM naps WHERE channel_id=? AND user_a=? AND user_b=?
nap_break(tbl, channel_id, user_1, user_2) ==
    LET existing == nap_get(tbl, channel_id, user_1, user_2)
        p == canon_pair(user_1, user_2)
    IN  IF existing = {}
        THEN [tbl |-> tbl, ret |-> "missing"]
        ELSE LET row == CHOOSE r \in existing : TRUE
             IN  [tbl |-> {r \in tbl :
                              ~(r.channel_id = channel_id /\ r.user_a = p[1] /\ r.user_b = p[2])},
                  ret |-> IF row.status = "accepted" THEN "broken"
                          ELSE IF row.status = "pending" THEN "cancelled_pending"
                          ELSE "removed"]

\* ---- turnmaps (MUP history) -------------------------------------------------
\* INSERT ... ON CONFLICT(channel_id, turn_number) DO UPDATE
turnmap_upsert(tbl, channel_id, turn_number, att) ==
    {m \in tbl : ~(m.channel_id = channel_id /\ m.turn_number = turn_number)}
    \cup {[channel_id |-> channel_id, turn_number |-> turn_number,
           map_attachment_id |-> att.id, map_filename |-> att.fn]}

\* turnmap_latest with ORDER BY turn_number ASC.
turnmap_latest_asc(channel_id) ==
    {m \in turnmaps : /\ m.channel_id = channel_id
                      /\ \A o \in turnmaps : o.channel_id = channel_id
                                               => m.turn_number <= o.turn_number}

\* ORDER BY turn_number DESC LIMIT 1; the empty set stands for None
turnmap_latest(channel_id) ==
    {m \in turnmaps : /\ m.channel_id = channel_id
                      /\ \A o \in turnmaps : o.channel_id = channel_id
                                               => o.turn_number <= m.turn_number}

turnmap_latest_at_or_before(channel_id, turn_number) ==
    {m \in turnmaps : /\ m.channel_id = channel_id
                      /\ m.turn_number <= turn_number
                      /\ \A o \in turnmaps :
                            (o.channel_id = channel_id /\ o.turn_number <= turn_number)
                                => o.turn_number <= m.turn_number}

\* turnplayers_replace_from_current without the turn in its DELETE and INSERT.
turnplayers_replace_from_current_every_turn(ps, channel_id, turn_number) ==
    [turnplayers EXCEPT ![channel_id] = [t \in DOMAIN @ |-> ps[channel_id]]]

\* turnplayers_replace_from_current rewriting the turn before as well.
turnplayers_replace_from_current_and_before(ps, channel_id, turn_number) ==
    [turnplayers EXCEPT ![channel_id] =
        [t \in DOMAIN @ |-> IF t = turn_number \/ t = turn_number - 1
                             THEN ps[channel_id] ELSE @[t]]]

\* ---- turnplayers (player snapshots per turn) --------------------------------
\* DELETE the turn's rows, then INSERT ... SELECT ... FROM players: reads the
\* players table as it is when the call is made (`ps`).
turnplayers_replace_from_current(ps, channel_id, turn_number) ==
    [turnplayers EXCEPT ![channel_id][turn_number] = ps[channel_id]]

turnplayers_for_turn(channel_id, turn_number) ==
    IF turn_number \in DOMAIN turnplayers[channel_id]
    THEN turnplayers[channel_id][turn_number] ELSE <<>>

\* ---- render_turn_view -------------------------------------------------------
\* The parts of the text that depend on the store: None without a game, else
\* the roster lines, the map line and the first-roll line of each roster member.
render_turn_view(channel_id, turn) ==
    IF ~HasGame(channel_id) THEN None
    ELSE LET game_row == GameRow(channel_id)
             snap == turnplayers_for_turn(channel_id, turn)
             ps == IF snap = <<>> THEN players[channel_id] ELSE snap
             rs == rolls_for_turn(channel_id, turn)
             tm == turnmap_latest_at_or_before(channel_id, turn)
             first_roll(uid) ==
                 IF \E i \in 1..Len(rs) : rs[i].user_id = uid
                 THEN rs[CHOOSE i \in 1..Len(rs) :
                            /\ rs[i].user_id = uid
                            /\ \A j \in 1..(i-1) : rs[j].user_id # uid].roll_value
                 ELSE None
         IN  [op |-> game_row.op_user_id,
              viewing |-> turn,
              current |-> game_row.turn_number,
              players |-> ps,
              map |-> IF tm # {} /\ (CHOOSE m \in tm : TRUE).map_attachment_id # None
                                 /\ (CHOOSE m \in tm : TRUE).map_filename # None
                      THEN [id |-> (CHOOSE m \in tm : TRUE).map_attachment_id,
                            fn |-> (CHOOSE m \in tm : TRUE).map_filename]
                      ELSE NoImage,
              rolls |-> [i \in 1..Len(ps) |-> first_roll(ps[i].user_id)]]
\* ---- nav messages -----------------------------------------------------------
\* INSERT ... ON CONFLICT(message_id) DO UPDATE
nav_set(message_id, channel_id, displayed_turn, view_type, displayed_page) ==
    {n \in nav : n.message_id # message_id}
    \cup {[message_id |-> message_id, channel_id |-> channel_id,
           displayed_turn |-> displayed_turn, displayed_page |-> displayed_page,
           view_type |-> view_type, updated_at |-> now]}

\* The cap that keeps the supervisor tasks finite: an id no unfinished task has.
TaskRoom == \E id \in TaskIds : \A t \in tasks : t.id # id

FreeTask == CHOOSE id \in TaskIds :
                /\ \A t \in tasks : t.id # id
                /\ \A o \in TaskIds : (\A t \in tasks : t.id # o) => id <= o

\* schedule_nav_reaction_expiry without prev.cancel().
schedule_nav_reaction_expiry_no_cancel(channel_id, message_id) ==
    [nav_cleanup_tasks |->
         {e \in nav_cleanup_tasks : e.message_id # message_id}
         \cup {[message_id |-> message_id, task |-> FreeTask]},
     tasks |->
         tasks \cup {[id |-> FreeTask, message_id |-> message_id, channel_id |-> channel_id,
                      pc |-> "start", wake |-> 0, result |-> "none", cancelled |-> FALSE]}]

\* prev = nav_cleanup_tasks.get(message_id); if prev and not prev.done():
\* prev.cancel(); nav_cleanup_tasks[message_id] = create_task(_worker()).
\* The new task has not run yet; a task of `tasks` is not done.  A cancelled
\* task is left with CancelledError to come at the await it is at: where it
\* was and when it would have woken no longer matter.
schedule_nav_reaction_expiry(channel_id, message_id) ==
    LET prev == {e.task : e \in {e \in nav_cleanup_tasks : e.message_id = message_id}}
    IN  [nav_cleanup_tasks |->
             {e \in nav_cleanup_tasks : e.message_id # message_id}
             \cup {[message_id |-> message_id, task |-> FreeTask]},
         tasks |->
             {IF t.id \in prev
              THEN [t EXCEPT !.cancelled = TRUE, !.pc = "cancelled", !.wake = 0,
                             !.result = "none"]
              ELSE t : t \in tasks}
             \cup {[id |-> FreeTask, message_id |-> message_id, channel_id |-> channel_id,
                    pc |-> "start", wake |-> 0, result |-> "none", cancelled |-> FALSE]}]

\* What send_message can return: None (status >= 400, here 0) or a fresh id.
SendResults == {0} \cup (IF nextMsg \in MsgIds THEN {nextMsg} ELSE {})

\* publish_game_view(channel_id, turn) once the text is rendered: reply, and
\* with a message id nav_set, the two reactions, and the expiry supervisor.
\* `reacted` is FALSE when an add_reaction request raises: the row is there and
\* no supervisor is scheduled for it.
publish_game_view(channel_id, turn, sent_id, reacted) ==
    IF sent_id = 0
    THEN UNCHANGED <<nav, nav_cleanup_tasks, tasks, nextMsg>>
    ELSE IF ~reacted
    THEN /\ nav' = nav_set(sent_id, channel_id, turn, "game", 0)
         /\ nextMsg' = nextMsg + 1
         /\ UNCHANGED <<nav_cleanup_tasks, tasks>>
    ELSE /\ TaskRoom
         /\ nav' = nav_set(sent_id, channel_id, turn, "game", 0)
         /\ nav_cleanup_tasks' =
                schedule_nav_reaction_expiry(channel_id, sent_id).nav_cleanup_tasks
         /\ tasks' = schedule_nav_reaction_expiry(channel_id, sent_id).tasks
         /\ nextMsg' = nextMsg + 1

\* cmd_start without the test for an active game, inserting with OR REPLACE.
cmd_start_over(c, u, att) ==
    IF att.id = None \/ att.fn = None
    THEN /\ reply' = Reply("need_map")
         /\ UNCHANGED <<store, nav_cleanup_tasks, tasks, nextMsg, now, aux>>
    ELSE /\ games' = {g \in games : g.channel_id # c} \cup
                      {[channel_id |-> c, op_user_id |-> u, turn_number |-> 0,
                        map_attachment_id |-> att.id, map_filename |-> att.fn]}
         /\ turnmaps' = turnmap_upsert(turnmaps, c, 0, att)
         /\ turnplayers' = turnplayers_replace_from_current(players, c, 0)
         /\ EventRoom(c)
         /\ events' = event_add(c, 0, u, "game_start")
         /\ reply' = Reply("created")
         /\ UNCHANGED <<players, rolls, alliances, naps, nav, nav_cleanup_tasks, tasks, nextMsg, now, aux>>

\* ---- command handlers (commands.py) ------------------------------------------
\* r.start, with the picked image attachment `att` (NoImage when there is none)
cmd_start(c, u, att) ==
    IF game_get(c) # {}
    THEN /\ reply' = Reply("already_active")
         /\ UNCHANGED <<store, nav_cleanup_tasks, tasks, nextMsg, now, aux>>
    ELSE IF att.id = None \/ att.fn = None
    THEN /\ reply' = Reply("need_map")
         /\ UNCHANGED <<store, nav_cleanup_tasks, tasks, nextMsg, now, aux>>
    ELSE IF game_create(c, u, att) = games
    THEN \* sqlite3.IntegrityError: caught at the dispatch boundary, no reply
         /\ reply' = Reply("exception")
         /\ UNCHANGED <<store, nav_cleanup_tasks, tasks, nextMsg, now, aux>>
    ELSE /\ games' = game_create(c, u, att)
         /\ turnmaps' = turnmap_upsert(turnmaps, c, 0, att)
         /\ turnplayers' = turnplayers_replace_from_current(players, c, 0)
         /\ events' = event_add(c, 0, u, "game_start")
         /\ reply' = Reply("created")
         /\ UNCHANGED <<players, rolls, alliances, naps, nav, nav_cleanup_tasks, tasks, nextMsg, now, aux>>

\* game_delete leaving the nav_messages rows.
game_delete_keeps_nav(c) ==
    /\ games' = {g \in games : g.channel_id # c}
    /\ players' = [players EXCEPT ![c] = <<>>]
    /\ rolls' = [rolls EXCEPT ![c] = <<>>]
    /\ events' = [events EXCEPT ![c] = <<>>]
    /\ alliances' = {r \in alliances : r.channel_id # c}
    /\ naps' = {r \in naps : r.channel_id # c}
    /\ turnmaps' = {m \in turnmaps : m.channel_id # c}
    /\ turnplayers' = [turnplayers EXCEPT ![c] = [t \in DOMAIN @ |-> <<>>]]
    /\ nav' = nav

\* game_delete leaving the roster snapshots.
game_delete_keeps_snapshots(c) ==
    /\ games' = {g \in games : g.channel_id # c}
    /\ players' = [players EXCEPT ![c] = <<>>]
    /\ rolls' = [rolls EXCEPT ![c] = <<>>]
    /\ events' = [events EXCEPT ![c] = <<>>]
    /\ alliances' = {r \in alliances : r.channel_id # c}
    /\ naps' = {r \in naps : r.channel_id # c}
    /\ turnmaps' = {m \in turnmaps : m.channel_id # c}
    /\ turnplayers' = turnplayers
    /\ nav' = {n \in nav : n.channel_id # c}

\* DELETE FROM <every table> WHERE channel_id = ?
\* game_delete with its last statement deleting the browsers of every channel.
game_delete_every_nav(c) ==
    /\ games' = {g \in games : g.channel_id # c}
    /\ players' = [players EXCEPT ![c] = <<>>]
    /\ rolls' = [rolls EXCEPT ![c] = <<>>]
    /\ events' = [events EXCEPT ![c] = <<>>]
    /\ alliances' = {r \in alliances : r.channel_id # c}
    /\ naps' = {r \in naps : r.channel_id # c}
    /\ turnmaps' = {m \in turnmaps : m.channel_id # c}
    /\ turnplayers' = [turnplayers EXCEPT ![c] = [t \in DOMAIN @ |-> <<>>]]
    /\ nav' = {}

game_delete(c) ==
    /\ games' = {g \in games : g.channel_id # c}
    /\ players' = [players EXCEPT ![c] = <<>>]
    /\ rolls' = [rolls EXCEPT ![c] = <<>>]
    /\ events' = [events EXCEPT ![c] = <<>>]
    /\ alliances' = {r \in alliances : r.channel_id # c}
    /\ naps' = {r \in naps : r.channel_id # c}
    /\ turnmaps' = {m \in turnmaps : m.channel_id # c}
    /\ turnplayers' = [turnplayers EXCEPT ![c] = [t \in DOMAIN @ |-> <<>>]]
    /\ nav' = {n \in nav : n.channel_id # c}

\* r.reset / r.end
cmd_reset(c, u) ==
    IF game_get(c) = {}
    THEN /\ reply' = Reply("no_game")
         /\ UNCHANGED <<store, nav_cleanup_tasks, tasks, nextMsg, now, aux>>
    ELSE IF ~is_op(GameRow(c), u)
    THEN /\ reply' = Reply("not_op")
         /\ UNCHANGED <<store, nav_cleanup_tasks, tasks, nextMsg, now, aux>>
    ELSE /\ game_delete(c)
         /\ reply' = Reply("ended")
         /\ UNCHANGED <<nav_cleanup_tasks, tasks, nextMsg, now, aux>>

\* r.join <name>
cmd_join(c, u, arg) ==
    IF game_get(c) = {}
    THEN /\ reply' = Reply("no_game")
         /\ UNCHANGED <<store, nav_cleanup_tasks, tasks, nextMsg, now, aux>>
    ELSE LET is_new == ~player_in_game(c, u)
             turn == GameRow(c).turn_number
         IN  /\ EventRoom(c)
             /\ players' = [players EXCEPT ![c] = player_add_or_update(c, u, arg)]
             /\ turnplayers' = turnplayers_replace_from_current(players', c, turn)
             /\ events' = event_add(c, turn, u,
                                    IF is_new THEN "player_join" ELSE "player_rename")
             /\ reply' = Reply(IF is_new THEN "joined" ELSE "renamed")
             /\ UNCHANGED <<games, rolls, alliances, naps, turnmaps, nav,
                            nav_cleanup_tasks, tasks, nextMsg, now, aux>>

\* r.quit
cmd_quit(c, u) ==
    IF game_get(c) = {}
    THEN /\ reply' = Reply("no_game")
         /\ UNCHANGED <<store, nav_cleanup_tasks, tasks, nextMsg, now, aux>>
    ELSE IF player_in_game(c, u)
    THEN LET turn == GameRow(c).turn_number
         IN  /\ EventRoom(c)
             /\ players' = [players EXCEPT ![c] = player_remove(c, u)]
             /\ turnplayers' = turnplayers_replace_from_current(players', c, turn)
             /\ events' = event_add(c, turn, u, "player_quit")
             /\ reply' = Reply("left")
             /\ UNCHANGED <<games, rolls, alliances, naps, turnmaps, nav,
                            nav_cleanup_tasks, tasks, nextMsg, now, aux>>
    ELSE /\ reply' = Reply("not_in_game")
         /\ UNCHANGED <<store, nav_cleanup_tasks, tasks, nextMsg, now, aux>>

\* r.add @player [name...]; `target` is what parse_ally_target returns
cmd_add(c, u, target, arg) ==
    IF game_get(c) = {}
    THEN /\ reply' = Reply("no_game")
         /\ UNCHANGED <<store, nav_cleanup_tasks, tasks, nextMsg, now, aux>>
    ELSE IF ~is_op(GameRow(c), u)
    THEN /\ reply' = Reply("not_op")
         /\ UNCHANGED <<store, nav_cleanup_tasks, tasks, nextMsg, now, aux>>
    ELSE IF target = NoUser
    THEN /\ reply' = Reply("usage")
         /\ UNCHANGED <<store, nav_cleanup_tasks, tasks, nextMsg, now, aux>>
    ELSE LET is_new == ~player_in_game(c, target)
             turn == GameRow(c).turn_number
         IN  /\ EventRoom(c)
             /\ players' = [players EXCEPT ![c] = player_add_or_update(c, target, arg)]
             /\ turnplayers' = turnplayers_replace_from_current(players', c, turn)
             /\ events' = event_add(c, turn, u,
                             IF is_new THEN "player_forced_add" ELSE "player_forced_update")
             /\ reply' = Reply(IF is_new THEN "added" ELSE "updated")
             /\ UNCHANGED <<games, rolls, alliances, naps, turnmaps, nav,
                            nav_cleanup_tasks, tasks, nextMsg, now, aux>>

\* r.roll [order...]; `value` is what gen_11_digit returns
cmd_roll(c, u, value) ==
    IF game_get(c) = {}
    THEN /\ reply' = Reply("no_game")
         /\ UNCHANGED <<store, nav_cleanup_tasks, tasks, nextMsg, now, aux>>
    ELSE IF ~player_in_game(c, u)
    THEN /\ reply' = Reply("not_joined")
         /\ UNCHANGED <<store, nav_cleanup_tasks, tasks, nextMsg, now, aux>>
    ELSE LET turn == GameRow(c).turn_number
         IN  /\ EventRoom(c)
             /\ Len(rolls[c]) < MaxRolls
             /\ rolls' = roll_add(c, turn, u, value)
             /\ events' = event_add(c, turn, u, "roll")
             /\ reply' = ReplyTurn("rolled", turn)
             /\ UNCHANGED <<games, players, alliances, naps, turnmaps, turnplayers,
                            nav, nav_cleanup_tasks, tasks, nextMsg, now, aux>>

\* The first word of r.dnd's arguments: none, a word that is not <digits>d<digits>,
\* or n d size.
DiceArgs ==
    {[kind |-> "empty", n |-> 0, size |-> 0], [kind |-> "text", n |-> 0, size |-> 0]}
        \cup {[kind |-> "dice", n |-> 1, size |-> 2], [kind |-> "dice", n |-> 100, size |-> 1000],
              [kind |-> "dice", n |-> 0, size |-> 6], [kind |-> "dice", n |-> 101, size |-> 6],
              [kind |-> "dice", n |-> 2, size |-> 1], [kind |-> "dice", n |-> 2, size |-> 1001]}

\* parse_dice_value: (n, size), or None (ok = FALSE).
parse_dice_value(dice) ==
    IF dice.kind # "dice" THEN [ok |-> FALSE, n |-> 0, size |-> 0]
    ELSE IF dice.n < 1 \/ dice.size < 2 THEN [ok |-> FALSE, n |-> 0, size |-> 0]
    ELSE IF dice.n > 100 \/ dice.size > 1000 THEN [ok |-> FALSE, n |-> 0, size |-> 0]
    ELSE [ok |-> TRUE, n |-> dice.n, size |-> dice.size]

\* cmd_dnd writing its roll before it looks at the dice.
cmd_dnd_rolls_first(c, u, dice, value) ==
    IF game_get(c) = {}
    THEN /\ reply' = Reply("no_game")
         /\ UNCHANGED <<store, nav_cleanup_tasks, tasks, nextMsg, now, aux>>
    ELSE IF ~player_in_game(c, u)
    THEN /\ reply' = Reply("not_joined")
         /\ UNCHANGED <<store, nav_cleanup_tasks, tasks, nextMsg, now, aux>>
    ELSE LET turn == GameRow(c).turn_number
         IN  /\ EventRoom(c)
             /\ Len(rolls[c]) < MaxRolls
             /\ rolls' = roll_add(c, turn, u, value)
             /\ events' = event_add(c, turn, u, "dnd_roll")
             /\ reply' = IF dice.kind = "empty" THEN Reply("usage")
                         ELSE IF ~parse_dice_value(dice).ok THEN Reply("bad_dice")
                         ELSE ReplyTurn("dnd_rolled", turn)
             /\ UNCHANGED <<games, players, alliances, naps, turnmaps, turnplayers,
                            nav, nav_cleanup_tasks, tasks, nextMsg, now, aux>>

\* r.dnd <XdY> [order...]; `value` stands for str(total), the sum of the dice.
cmd_dnd(c, u, dice, value) ==
    IF game_get(c) = {}
    THEN /\ reply' = Reply("no_game")
         /\ UNCHANGED <<store, nav_cleanup_tasks, tasks, nextMsg, now, aux>>
    ELSE IF ~player_in_game(c, u)
    THEN /\ reply' = Reply("not_joined")
         /\ UNCHANGED <<store, nav_cleanup_tasks, tasks, nextMsg, now, aux>>
    ELSE IF dice.kind = "empty"
    THEN /\ reply' = Reply("usage")
         /\ UNCHANGED <<store, nav_cleanup_tasks, tasks, nextMsg, now, aux>>
    ELSE IF ~parse_dice_value(dice).ok
    THEN /\ reply' = Reply("bad_dice")
         /\ UNCHANGED <<store, nav_cleanup_tasks, tasks, nextMsg, now, aux>>
    ELSE LET turn == GameRow(c).turn_number
         IN  /\ EventRoom(c)
             /\ Len(rolls[c]) < MaxRolls
             /\ rolls' = roll_add(c, turn, u, value)
             /\ events' = event_add(c, turn, u, "dnd_roll")
             /\ reply' = ReplyTurn("dnd_rolled", turn)
             /\ UNCHANGED <<games, players, alliances, naps, turnmaps, turnplayers,
                            nav, nav_cleanup_tasks, tasks, nextMsg, now, aux>>

\* r.ally @player; `target` is what parse_ally_target returns
cmd_ally(c, u, target) ==
    IF game_get(c) = {}
    THEN /\ reply' = Reply("no_game")
         /\ UNCHANGED <<store, nav_cleanup_tasks, tasks, nextMsg, now, aux>>
    ELSE IF ~player_in_game(c, u)
    THEN /\ reply' = Reply("not_joined")
         /\ UNCHANGED <<store, nav_cleanup_tasks, tasks, nextMsg, now, aux>>
    ELSE IF target = NoUser
    THEN /\ reply' = Reply("usage")
         /\ UNCHANGED <<store, nav_cleanup_tasks, tasks, nextMsg, now, aux>>
    ELSE IF target = u
    THEN /\ reply' = Reply("self")
         /\ UNCHANGED <<store, nav_cleanup_tasks, tasks, nextMsg, now, aux>>
    ELSE IF ~player_in_game(c, target)
    THEN /\ reply' = Reply("target_not_player")
         /\ UNCHANGED <<store, nav_cleanup_tasks, tasks, nextMsg, now, aux>>
    ELSE LET res == alliance_propose_or_accept(alliances, c, u, target)
             turn == GameRow(c).turn_number
         IN  /\ alliances' = res.tbl
             /\ reply' = Reply(res.ret)
             /\ IF res.ret \in {"proposed", "accepted"}
                THEN /\ RelEventRoom(c)
                     /\ events' = event_add(c, turn, u,
                            IF res.ret = "proposed" THEN "alliance_proposed"
                            ELSE "alliance_accepted")
                ELSE UNCHANGED events
             /\ UNCHANGED <<games, players, rolls, naps, turnmaps, turnplayers, nav,
                            nav_cleanup_tasks, tasks, nextMsg, now, aux>>

\* cmd_betray wired to the NAP table.
cmd_betray_on_naps(c, u, target) ==
    IF game_get(c) = {}
    THEN /\ reply' = Reply("no_game")
         /\ UNCHANGED <<store, nav_cleanup_tasks, tasks, nextMsg, now, aux>>
    ELSE IF ~player_in_game(c, u)
    THEN /\ reply' = Reply("not_joined")
         /\ UNCHANGED <<store, nav_cleanup_tasks, tasks, nextMsg, now, aux>>
    ELSE IF target = NoUser
    THEN /\ reply' = Reply("usage")
         /\ UNCHANGED <<store, nav_cleanup_tasks, tasks, nextMsg, now, aux>>
    ELSE IF target = u
    THEN /\ reply' = Reply("self")
         /\ UNCHANGED <<store, nav_cleanup_tasks, tasks, nextMsg, now, aux>>
    ELSE IF ~player_in_game(c, target)
    THEN /\ reply' = Reply("target_not_player")
         /\ UNCHANGED <<store, nav_cleanup_tasks, tasks, nextMsg, now, aux>>
    ELSE LET res == nap_break(naps, c, u, target)
             turn == GameRow(c).turn_number
         IN  /\ naps' = res.tbl
             /\ reply' = Reply(res.ret)
             /\ IF res.ret \in {"broken", "cancelled_pending"}
                THEN /\ RelEventRoom(c)
                     /\ events' = event_add(c, turn, u,
                            IF res.ret = "broken" THEN "alliance_broken"
                            ELSE "alliance_cancelled")
                ELSE UNCHANGED events
             /\ UNCHANGED <<games, players, rolls, alliances, turnmaps, turnplayers, nav,
                            nav_cleanup_tasks, tasks, nextMsg, now, aux>>


\* r.betray @player; `target` is what parse_ally_target returns
cmd_betray(c, u, target) ==
    IF game_get(c) = {}
    THEN /\ reply' = Reply("no_game")
         /\ UNCHANGED <<store, nav_cleanup_tasks, tasks, nextMsg, now, aux>>
    ELSE IF ~player_in_game(c, u)
    THEN /\ reply' = Reply("not_joined")
         /\ UNCHANGED <<store, nav_cleanup_tasks, tasks, nextMsg, now, aux>>
    ELSE IF target = NoUser
    THEN /\ reply' = Reply("usage")
         /\ UNCHANGED <<store, nav_cleanup_tasks, tasks, nextMsg, now, aux>>
    ELSE IF target = u
    THEN /\ reply' = Reply("self")
         /\ UNCHANGED <<store, nav_cleanup_tasks, tasks, nextMsg, now, aux>>
    ELSE IF ~player_in_game(c, target)
    THEN /\ reply' = Reply("target_not_player")
         /\ UNCHANGED <<store, nav_cleanup_tasks, tasks, nextMsg, now, aux>>
    ELSE LET res == alliance_break(alliances, c, u, target)
             turn == GameRow(c).turn_number
         IN  /\ alliances' = res.tbl
             /\ reply' = Reply(res.ret)
             /\ IF res.ret \in {"broken", "cancelled_pending"}
                THEN /\ RelEventRoom(c)
                     /\ events' = event_add(c, turn, u,
                            IF res.ret = "broken" THEN "alliance_broken"
                            ELSE "alliance_cancelled")
                ELSE UNCHANGED events
             /\ UNCHANGED <<games, players, rolls, naps, turnmaps, turnplayers, nav,
                            nav_cleanup_tasks, tasks, nextMsg, now, aux>>

\* r.nap @player; `target` is what parse_ally_target returns
cmd_nap(c, u, target) ==
    IF game_get(c) = {}
    THEN /\ reply' = Reply("no_game")
         /\ UNCHANGED <<store, nav_cleanup_tasks, tasks, nextMsg, now, aux>>
    ELSE IF ~player_in_game(c, u)
    THEN /\ reply' = Reply("not_joined")
         /\ UNCHANGED <<store, nav_cleanup_tasks, tasks, nextMsg, now, aux>>
    ELSE IF target = NoUser
    THEN /\ reply' = Reply("usage")
         /\ UNCHANGED <<store, nav_cleanup_tasks, tasks, nextMsg, now, aux>>
    ELSE IF target = u
    THEN /\ reply' = Reply("self")
         /\ UNCHANGED <<store, nav_cleanup_tasks, tasks, nextMsg, now, aux>>
    ELSE IF ~player_in_game(c, target)
    THEN /\ reply' = Reply("target_not_player")
         /\ UNCHANGED <<store, nav_cleanup_tasks, tasks, nextMsg, now, aux>>
    ELSE LET res == nap_propose_or_accept(naps, c, u, target)
             turn == GameRow(c).turn_number
         IN  /\ naps' = res.tbl
             /\ reply' = Reply(res.ret)
             /\ IF res.ret \in {"proposed", "accepted"}
                THEN /\ RelEventRoom(c)
                     /\ events' = event_add(c, turn, u,
                            IF res.ret = "proposed" THEN "nap_proposed"
                            ELSE "nap_accepted")
                ELSE UNCHANGED events
             /\ UNCHANGED <<games, players, rolls, alliances, turnmaps, turnplayers, nav,
                            nav_cleanup_tasks, tasks, nextMsg, now, aux>>

\* r.break @player; `target` is what parse_ally_target returns
cmd_break(c, u, target) ==
    IF game_get(c) = {}
    THEN /\ reply' = Reply("no_game")
         /\ UNCHANGED <<store, nav_cleanup_tasks, tasks, nextMsg, now, aux>>
    ELSE IF ~player_in_game(c, u)
    THEN /\ reply' = Reply("not_joined")
         /\ UNCHANGED <<store, nav_cleanup_tasks, tasks, nextMsg, now, aux>>
    ELSE IF target = NoUser
    THEN /\ reply' = Reply("usage")
         /\ UNCHANGED <<store, nav_cleanup_tasks, tasks, nextMsg, now, aux>>
    ELSE IF target = u
    THEN /\ reply' = Reply("self")
         /\ UNCHANGED <<store, nav_cleanup_tasks, tasks, nextMsg, now, aux>>
    ELSE IF ~player_in_game(c, target)
    THEN /\ reply' = Reply("target_not_player")
         /\ UNCHANGED <<store, nav_cleanup_tasks, tasks, nextMsg, now, aux>>
    ELSE LET res == nap_break(naps, c, u, target)
             turn == GameRow(c).turn_number
         IN  /\ naps' = res.tbl
             /\ reply' = Reply(res.ret)
             /\ IF res.ret \in {"broken", "cancelled_pending"}
                THEN /\ RelEventRoom(c)
                     /\ events' = event_add(c, turn, u,
                            IF res.ret = "broken" THEN "nap_broken"
                            ELSE "nap_cancelled")
                ELSE UNCHANGED events
             /\ UNCHANGED <<games, players, rolls, alliances, turnmaps, turnplayers, nav,
                            nav_cleanup_tasks, tasks, nextMsg, now, aux>>

\* r.mup [note...] with the picked image attachment `att`; `sent_id` is what
\* sending the game view returns
cmd_mup(c, u, att, sent_id, reacted) ==
    IF game_get(c) = {}
    THEN /\ reply' = Reply("no_game")
         /\ UNCHANGED <<store, nav_cleanup_tasks, tasks, nextMsg, now, aux>>
    ELSE IF ~is_op(GameRow(c), u)
    THEN /\ reply' = Reply("not_op")
         /\ UNCHANGED <<store, nav_cleanup_tasks, tasks, nextMsg, now, aux>>
    ELSE LET advanced == game_inc_turn(c)
             new_turn == (CHOOSE g \in advanced : g.channel_id = c).turn_number
             prev == turnmap_latest(c)
             carried == IF att.id = None \/ att.fn = None
                        THEN IF prev # {}
                             THEN [id |-> (CHOOSE m \in prev : TRUE).map_attachment_id,
                                   fn |-> (CHOOSE m \in prev : TRUE).map_filename]
                             ELSE att
                        ELSE att
         IN  /\ GameRow(c).turn_number < MaxTurn
             /\ EventRoom(c)
             /\ IF carried.id # None /\ carried.fn # None
                THEN /\ games' = game_set_map(advanced, c, carried)
                     /\ turnmaps' = turnmap_upsert(turnmaps, c, new_turn, carried)
                ELSE /\ games' = advanced
                     /\ turnmaps' = turnmap_upsert(turnmaps, c, new_turn, NoImage)
             /\ turnplayers' = turnplayers_replace_from_current(players, c, new_turn)
             /\ events' = event_add(c, new_turn, u, "turn_advance")
             /\ reply' = ReplyTurn("turn_live", new_turn)
             /\ sent_id \in SendResults
             /\ publish_game_view(c, new_turn, sent_id, reacted)
             /\ UNCHANGED <<players, rolls, alliances, naps, now, aux>>

\* ---- notes, game and events browsers ---------------------------------------------
PageSize == 15      \* page_size of _events_page_count and render_events_view

NavWindow == 30     \* inactivity_seconds, and the 30 of handle_nav_react

NoteLimit == 500    \* longest note r.say accepts

\* A note is modelled by the length of its stripped text.
Notes == {0, 1, NoteLimit + 1}

NoteRoom(channel_id) ==
    Cardinality({i \in 1..Len(events[channel_id]) :
                    events[channel_id][i].event_type = "note"}) < MaxNotes

\* cmd_say with the exception of its reply reaching run_forever.
cmd_say_escapes(c, u, note, outcome) ==
    IF game_get(c) = {}
    THEN /\ reply' = Reply("no_game")
         /\ UNCHANGED <<store, nav_cleanup_tasks, tasks, nextMsg, now, aux>>
    ELSE IF note = 0
    THEN /\ reply' = Reply("usage")
         /\ UNCHANGED <<store, nav_cleanup_tasks, tasks, nextMsg, now, aux>>
    ELSE IF note > NoteLimit
    THEN /\ reply' = Reply("note_too_long")
         /\ UNCHANGED <<store, nav_cleanup_tasks, tasks, nextMsg, now, aux>>
    ELSE IF ~player_in_game(c, u) /\ ~is_op(GameRow(c), u)
    THEN /\ reply' = Reply("not_joined")
         /\ UNCHANGED <<store, nav_cleanup_tasks, tasks, nextMsg, now, aux>>
    ELSE /\ NoteRoom(c)
         /\ events' = event_add(c, GameRow(c).turn_number, u, "note")
         /\ reply' = IF outcome = "raise" THEN Reply("exception")
                     ELSE ReplyTurn("note_added", GameRow(c).turn_number)
         /\ ws' = IF outcome = "raise" THEN "failed" ELSE ws
         /\ UNCHANGED <<games, players, rolls, alliances, naps, turnmaps, turnplayers, nav,
                        nav_cleanup_tasks, tasks, nextMsg, now, cleared, inflight, touched, pings, rest, self_user_id, text,
                        backoff, sleep_for>>

\* r.say <note>; `outcome` is what becomes of the final reply: "sent", or
\* "raise" when send_message raises (the note is in the log by then)
cmd_say(c, u, note, outcome) ==
    IF game_get(c) = {}
    THEN /\ reply' = Reply("no_game")
         /\ UNCHANGED <<store, nav_cleanup_tasks, tasks, nextMsg, now, aux>>
    ELSE IF note = 0
    THEN /\ reply' = Reply("usage")
         /\ UNCHANGED <<store, nav_cleanup_tasks, tasks, nextMsg, now, aux>>
    ELSE IF note > NoteLimit
    THEN /\ reply' = Reply("note_too_long")
         /\ UNCHANGED <<store, nav_cleanup_tasks, tasks, nextMsg, now, aux>>
    ELSE IF ~player_in_game(c, u) /\ ~is_op(GameRow(c), u)
    THEN /\ reply' = Reply("not_joined")
         /\ UNCHANGED <<store, nav_cleanup_tasks, tasks, nextMsg, now, aux>>
    ELSE /\ NoteRoom(c)
         /\ events' = event_add(c, GameRow(c).turn_number, u, "note")
         /\ reply' = IF outcome = "raise" THEN Reply("exception")
                     ELSE ReplyTurn("note_added", GameRow(c).turn_number)
         /\ UNCHANGED <<games, players, rolls, alliances, naps, turnmaps, turnplayers, nav,
                        nav_cleanup_tasks, tasks, nextMsg, now, aux>>

\* max(1, ceil(total / page_size))
events_page_count(channel_id, turn) ==
    LET total == Len(events_for_turn(channel_id, turn))
        pages == (total + PageSize - 1) \div PageSize
    IN  IF pages < 1 THEN 1 ELSE pages

\* The page render_events_view shows: max(0, min(page, page_count - 1)), and
\* the events[start:end] on it; None without a game.
render_events_view(channel_id, turn, page) ==
    IF ~HasGame(channel_id) THEN None
    ELSE LET all_events == events_for_turn(channel_id, turn)
             page_count == events_page_count(channel_id, turn)
             shown == IF page > page_count - 1 THEN page_count - 1 ELSE page
             first == shown * PageSize + 1
             last == IF first + PageSize - 1 > Len(all_events)
                     THEN Len(all_events) ELSE first + PageSize - 1
         IN  [viewing |-> turn, current |-> GameRow(channel_id).turn_number,
              page |-> shown, page_count |-> page_count,
              events |-> SubSeq(all_events, first, last)]

\* publish_events_view(channel_id, turn) once the text is rendered.
publish_events_view(channel_id, turn, sent_id, reacted) ==
    IF sent_id = 0
    THEN UNCHANGED <<nav, nav_cleanup_tasks, tasks, nextMsg>>
    ELSE IF ~reacted
    THEN /\ nav' = nav_set(sent_id, channel_id, turn, "events", 0)
         /\ nextMsg' = nextMsg + 1
         /\ UNCHANGED <<nav_cleanup_tasks, tasks>>
    ELSE /\ TaskRoom
         /\ nav' = nav_set(sent_id, channel_id, turn, "events", 0)
         /\ nav_cleanup_tasks' =
                schedule_nav_reaction_expiry(channel_id, sent_id).nav_cleanup_tasks
         /\ tasks' = schedule_nav_reaction_expiry(channel_id, sent_id).tasks
         /\ nextMsg' = nextMsg + 1

\* r.game
cmd_game(c, sent_id, reacted) ==
    IF game_get(c) = {}
    THEN /\ reply' = Reply("no_game")
         /\ UNCHANGED <<store, nav_cleanup_tasks, tasks, nextMsg, now, aux>>
    ELSE /\ sent_id \in SendResults
         /\ publish_game_view(c, GameRow(c).turn_number, sent_id, reacted)
         /\ reply' = ReplyTurn("game_view", GameRow(c).turn_number)
         /\ UNCHANGED <<games, players, rolls, events, alliances, naps, turnmaps,
                        turnplayers, now, aux>>

\* What follows r.events: nothing, something int() rejects, or an integer.
TurnArgs == {[kind |-> "empty", turn |-> 0], [kind |-> "bad", turn |-> 0]}
            \cup {[kind |-> "int", turn |-> t] : t \in (0 - 1)..(MaxTurn + 1)}

\* r.events [turn]
cmd_events(c, arg, sent_id, reacted) ==
    IF game_get(c) = {}
    THEN /\ reply' = Reply("no_game")
         /\ UNCHANGED <<store, nav_cleanup_tasks, tasks, nextMsg, now, aux>>
    ELSE IF arg.kind = "bad"
    THEN /\ reply' = Reply("usage")
         /\ UNCHANGED <<store, nav_cleanup_tasks, tasks, nextMsg, now, aux>>
    ELSE IF arg.kind = "int" /\ arg.turn < 0
    THEN /\ reply' = Reply("turn_negative")
         /\ UNCHANGED <<store, nav_cleanup_tasks, tasks, nextMsg, now, aux>>
    ELSE IF arg.kind = "int" /\ arg.turn > GameRow(c).turn_number
    THEN /\ reply' = Reply("turn_not_yet")
         /\ UNCHANGED <<store, nav_cleanup_tasks, tasks, nextMsg, now, aux>>
    ELSE LET turn == IF arg.kind = "int" THEN arg.turn ELSE GameRow(c).turn_number
         IN  /\ sent_id \in SendResults
             /\ publish_events_view(c, turn, sent_id, reacted)
             /\ reply' = ReplyTurn("events_view", turn)
             /\ UNCHANGED <<games, players, rolls, events, alliances, naps, turnmaps,
                            turnplayers, now, aux>>

\* ---- reaction navigation -------------------------------------------------------
\* The glyph classes _emoji_is_fwd, _emoji_is_back and _emoji_is_page tell
\* apart, and any other glyph.
Emojis == {"fwd", "back", "page", "other"}

BotUser == 9        \* the bot's own user id, as the server's Ready event announces it

\* `self.user_id and user == self.user_id` never taking an event for the
\* bot's own.
FromSelf_never(user) == FALSE

\* `self.user_id and user == self.user_id`: the event is the bot's own, which
\* nothing is before a Ready event has set self.user_id.
FromSelf(user) == self_user_id # NoUser /\ user = self_user_id

nav_get(message_id) == {n \in nav : n.message_id = message_id}

nav_delete(message_id) == {n \in nav : n.message_id # message_id}

\* nav_touch leaving the timestamp as it is.
nav_touch_not(tbl, message_id) ==
    {IF n.message_id = message_id THEN [n EXCEPT !.updated_at = @] ELSE n : n \in tbl}

nav_touch(tbl, message_id) ==
    {IF n.message_id = message_id THEN [n EXCEPT !.updated_at = now] ELSE n : n \in tbl}

\* nav_update_state as INSERT OR REPLACE: a record is written whether or not
\* one was there.
nav_update_state_upsert(message_id, displayed_turn, displayed_page) ==
    {n \in nav : n.message_id # message_id}
    \cup {[message_id |-> message_id,
           channel_id |-> IF nav_get(message_id) = {} THEN "c1"
                          ELSE (CHOOSE n \in nav_get(message_id) : TRUE).channel_id,
           displayed_turn |-> displayed_turn, displayed_page |-> displayed_page,
           view_type |-> IF nav_get(message_id) = {} THEN "game"
                         ELSE (CHOOSE n \in nav_get(message_id) : TRUE).view_type,
           updated_at |-> now]}

\* UPDATE nav_messages ... WHERE message_id=?: no row, no change.
nav_update_state(message_id, displayed_turn, displayed_page) ==
    {IF n.message_id = message_id
     THEN [n EXCEPT !.displayed_turn = displayed_turn,
                    !.displayed_page = displayed_page, !.updated_at = now]
     ELSE n : n \in nav}

\* nav_target with forward going on past the current turn.
nav_target_no_wrap(row, channel_id, emoji_id) ==
    LET current_turn == GameRow(channel_id).turn_number
        shown_turn == row.displayed_turn
        shown_page == row.displayed_page
    IN  IF emoji_id = "fwd"
        THEN [handled |-> TRUE,
              turn |-> shown_turn + 1,
              page |-> IF row.view_type = "events" THEN 0 ELSE shown_page]
        ELSE IF emoji_id = "back"
        THEN [handled |-> TRUE,
              turn |-> IF shown_turn <= 0 THEN current_turn ELSE shown_turn - 1,
              page |-> IF row.view_type = "events" THEN 0 ELSE shown_page]
        ELSE IF row.view_type = "events" /\ emoji_id = "page"
        THEN [handled |-> TRUE,
              turn |-> shown_turn,
              page |-> IF shown_page + 1 >= events_page_count(channel_id, shown_turn)
                       THEN 0 ELSE shown_page + 1]
        ELSE [handled |-> FALSE, turn |-> shown_turn, page |-> shown_page]

\* nav_target with forward and back keeping the page of an events browser.
nav_target_keep_page(row, channel_id, emoji_id) ==
    LET current_turn == GameRow(channel_id).turn_number
        shown_turn == row.displayed_turn
        shown_page == row.displayed_page
    IN  IF emoji_id = "fwd"
        THEN [handled |-> TRUE,
              turn |-> IF shown_turn >= current_turn THEN 0 ELSE shown_turn + 1,
              page |-> shown_page]
        ELSE IF emoji_id = "back"
        THEN [handled |-> TRUE,
              turn |-> IF shown_turn <= 0 THEN current_turn ELSE shown_turn - 1,
              page |-> shown_page]
        ELSE IF row.view_type = "events" /\ emoji_id = "page"
        THEN [handled |-> TRUE,
              turn |-> shown_turn,
              page |-> IF shown_page + 1 >= events_page_count(channel_id, shown_turn)
                       THEN 0 ELSE shown_page + 1]
        ELSE [handled |-> FALSE, turn |-> shown_turn, page |-> shown_page]

\* new_turn and new_page of handle_nav_react for a browser row; `handled` is
\* FALSE where the handler returns at its final else.
nav_target(row, channel_id, emoji_id) ==
    LET current_turn == GameRow(channel_id).turn_number
        shown_turn == row.displayed_turn
        shown_page == row.displayed_page
    IN  IF emoji_id = "fwd"
        THEN [handled |-> TRUE,
              turn |-> IF shown_turn >= current_turn THEN 0 ELSE shown_turn + 1,
              page |-> IF row.view_type = "events" THEN 0 ELSE shown_page]
        ELSE IF emoji_id = "back"
        THEN [handled |-> TRUE,
              turn |-> IF shown_turn <= 0 THEN current_turn ELSE shown_turn - 1,
              page |-> IF row.view_type = "events" THEN 0 ELSE shown_page]
        ELSE IF row.view_type = "events" /\ emoji_id = "page"
        THEN [handled |-> TRUE,
              turn |-> shown_turn,
              page |-> IF shown_page + 1 >= events_page_count(channel_id, shown_turn)
                       THEN 0 ELSE shown_page + 1]
        ELSE [handled |-> FALSE, turn |-> shown_turn, page |-> shown_page]

\* The handler's test taking a record for expired from the window's last
\* second on, as the supervisor does.
nav_expired_at_window(row) == now - row.updated_at >= NavWindow

\* now_ts - last_active > 30
nav_expired(row) == now - row.updated_at > NavWindow

\* A MessageReact frame, up to the handler's return or to its await of
\* edit_message.  `cl` is what becomes of clear_reactions on the expired
\* path: "ok", "fail" (status >= 400) or "raise".
handle_nav_react(msg_id, channel_id, user_id, emoji_id, cl) ==
    /\ inflight = {}
    /\ IF FromSelf(user_id)
       THEN /\ reply' = Reply("react_own")
            /\ UNCHANGED <<store, nav_cleanup_tasks, tasks, nextMsg, now, aux>>
       ELSE IF nav_get(msg_id) = {}
       THEN /\ reply' = Reply("react_untracked")
            /\ UNCHANGED <<store, nav_cleanup_tasks, tasks, nextMsg, now, aux>>
       ELSE LET row == CHOOSE n \in nav_get(msg_id) : TRUE
            IN  IF nav_expired(row)
                THEN /\ cleared' = IF cl = "ok" THEN cleared \cup {msg_id} ELSE cleared
                     /\ nav' = IF cl = "raise" THEN nav ELSE nav_delete(msg_id)
                     /\ ws' = IF cl = "raise" THEN "failed" ELSE ws
                     /\ reply' = Reply(IF cl = "raise" THEN "exception" ELSE "react_expired")
                     /\ UNCHANGED <<games, players, rolls, events, alliances, naps, turnmaps,
                                    turnplayers, nav_cleanup_tasks, tasks, nextMsg, now,
                                    inflight, touched, pings, rest, self_user_id, text, backoff, sleep_for>>
                ELSE IF game_get(channel_id) = {}
                THEN /\ reply' = Reply("react_no_game")
                     /\ UNCHANGED <<store, nav_cleanup_tasks, tasks, nextMsg, now, aux>>
                ELSE IF ~nav_target(row, channel_id, emoji_id).handled
                THEN /\ reply' = Reply("react_ignored")
                     /\ UNCHANGED <<store, nav_cleanup_tasks, tasks, nextMsg, now, aux>>
                ELSE LET new == nav_target(row, channel_id, emoji_id)
                         same == /\ new.turn = row.displayed_turn
                                 /\ new.page = row.displayed_page
                     IN  /\ TaskRoom
                         /\ nav' = nav_touch(nav, msg_id)
                         /\ nav_cleanup_tasks' =
                               schedule_nav_reaction_expiry(channel_id, msg_id).nav_cleanup_tasks
                         /\ tasks' = schedule_nav_reaction_expiry(channel_id, msg_id).tasks
                         /\ inflight' = IF same THEN {}
                                        ELSE {[message_id |-> msg_id, channel_id |-> channel_id,
                                               turn |-> new.turn, page |-> new.page]}
                         /\ touched' = [touched EXCEPT ![msg_id] = now]
                         /\ reply' = Reply(IF same THEN "react_same" ELSE "react_edit")
                         /\ UNCHANGED <<games, players, rolls, events, alliances, naps,
                                        turnmaps, turnplayers, nextMsg, now,
                                        cleared, pings, rest, self_user_id, text, ws, backoff, sleep_for>>

\* handle_nav_react from the return of edit_message on: `edited` is "ok",
\* "fail" (status >= 400) or "raise".
\* handle_nav_react_edited storing the new position whatever edit_message
\* returned.
handle_nav_react_edited_always(edited) ==
    /\ inflight # {}
    /\ LET req == CHOOSE r \in inflight : TRUE
       IN  /\ nav' = IF edited # "raise"
                     THEN nav_update_state(req.message_id, req.turn, req.page)
                     ELSE nav
           /\ ws' = IF edited = "raise" THEN "failed" ELSE ws
           /\ reply' = IF edited = "ok" THEN ReplyTurn("react_edited", req.turn)
                       ELSE IF edited = "fail" THEN Reply("react_edit_failed")
                       ELSE Reply("exception")
    /\ inflight' = {}
    /\ UNCHANGED <<games, players, rolls, events, alliances, naps, turnmaps, turnplayers,
                   nav_cleanup_tasks, tasks, nextMsg, now, cleared, touched, pings, rest, self_user_id, text, backoff,
                   sleep_for>>

handle_nav_react_edited(edited) ==
    /\ inflight # {}
    /\ LET req == CHOOSE r \in inflight : TRUE
       IN  /\ nav' = IF edited = "ok"
                     THEN nav_update_state(req.message_id, req.turn, req.page)
                     ELSE nav
           /\ ws' = IF edited = "raise" THEN "failed" ELSE ws
           /\ reply' = IF edited = "ok" THEN ReplyTurn("react_edited", req.turn)
                       ELSE IF edited = "fail" THEN Reply("react_edit_failed")
                       ELSE Reply("exception")
    /\ inflight' = {}
    /\ UNCHANGED <<games, players, rolls, events, alliances, naps, turnmaps, turnplayers,
                   nav_cleanup_tasks, tasks, nextMsg, now, cleared, touched, pings, rest, self_user_id, text, backoff,
                   sleep_for>>

\* ---- expiry supervisors (schedule_nav_reaction_expiry._worker) -----------------
Task(id) == CHOOSE t \in tasks : t.id = id

\* return, and the finally clause: the task pops its message's entry only if
\* the entry holds this very task.
worker_exit(t) ==
    /\ tasks' = tasks \ {t}
    /\ nav_cleanup_tasks' =
          {e \in nav_cleanup_tasks : ~(e.message_id = t.message_id /\ e.task = t.id)}

\* worker_loop taking the window for over one second early.
worker_loop_early(id, cl) ==
    /\ \E t \in tasks : t.id = id
    /\ LET t == Task(id)
           found == nav_get(t.message_id)
       IN  /\ ~t.cancelled
           /\ t.pc = "start" \/ (t.pc = "sleeping" /\ now >= t.wake)
           /\ IF found = {}
              THEN worker_exit(t) /\ UNCHANGED <<cleared>>
              ELSE LET row == CHOOSE n \in found : TRUE
                       inactive_for == now - row.updated_at
                       remaining == NavWindow - inactive_for
                   IN  IF remaining > 1
                       THEN /\ tasks' = (tasks \ {t}) \cup
                                   {[t EXCEPT !.pc = "sleeping", !.wake = now + remaining + 1]}
                            /\ UNCHANGED <<nav_cleanup_tasks, cleared>>
                       ELSE /\ tasks' = (tasks \ {t}) \cup
                                   {[t EXCEPT !.pc = "clearing", !.result = cl]}
                            /\ cleared' = IF cl = "ok" THEN cleared \cup {t.message_id}
                                          ELSE cleared
                            /\ UNCHANGED <<nav_cleanup_tasks>>
    /\ UNCHANGED <<store, inflight, touched, pings, rest, self_user_id, text, ws, backoff, sleep_for, nextMsg, now, reply>>

\* One turn of the while loop, from its top (at the start, or when the sleep
\* is over) to the next await or to the return.  `cl` is what becomes of the
\* clear_reactions request if the turn issues one.
worker_loop(id, cl) ==
    /\ \E t \in tasks : t.id = id
    /\ LET t == Task(id)
           found == nav_get(t.message_id)
       IN  /\ ~t.cancelled
           /\ t.pc = "start" \/ (t.pc = "sleeping" /\ now >= t.wake)
           /\ IF found = {}
              THEN worker_exit(t) /\ UNCHANGED <<cleared>>
              ELSE LET row == CHOOSE n \in found : TRUE
                       inactive_for == now - row.updated_at
                       remaining == NavWindow - inactive_for
                   IN  IF remaining > 0
                       THEN /\ tasks' = (tasks \ {t}) \cup
                                   {[t EXCEPT !.pc = "sleeping", !.wake = now + remaining + 1]}
                            /\ UNCHANGED <<nav_cleanup_tasks, cleared>>
                       ELSE /\ tasks' = (tasks \ {t}) \cup
                                   {[t EXCEPT !.pc = "clearing", !.result = cl]}
                            /\ cleared' = IF cl = "ok" THEN cleared \cup {t.message_id}
                                          ELSE cleared
                            /\ UNCHANGED <<nav_cleanup_tasks>>
    /\ UNCHANGED <<store, inflight, touched, pings, rest, self_user_id, text, ws, backoff, sleep_for, nextMsg, now, reply>>

\* worker_cleared returning without nav_delete.
worker_cleared_keeps(id) ==
    /\ \E t \in tasks : t.id = id
    /\ LET t == Task(id)
       IN  /\ ~t.cancelled
           /\ t.pc = "clearing"
           /\ worker_exit(t)
    /\ UNCHANGED <<store, cleared, inflight, touched, pings, rest, self_user_id, text, ws, backoff, sleep_for, nextMsg, now, reply>>

\* The return of clear_reactions: nav_delete and return, or the except branch
\* when the request raised.
worker_cleared(id) ==
    /\ \E t \in tasks : t.id = id
    /\ LET t == Task(id)
       IN  /\ ~t.cancelled
           /\ t.pc = "clearing"
           /\ nav' = IF t.result = "raise" THEN nav ELSE nav_delete(t.message_id)
           /\ worker_exit(t)
    /\ UNCHANGED <<games, players, rolls, events, alliances, naps, turnmaps, turnplayers,
                   cleared, inflight, touched, pings, rest, self_user_id, text, ws, backoff, sleep_for, nextMsg, now, reply>>

\* A cancelled task: CancelledError at its await (or before its first step);
\* its finally clause finds another task under its message id.
worker_cancelled(id) ==
    /\ \E t \in tasks : t.id = id
    /\ LET t == Task(id)
       IN  /\ t.cancelled
           /\ worker_exit(t)
    /\ UNCHANGED <<store, cleared, inflight, touched, pings, rest, self_user_id, text, ws, backoff, sleep_for, nextMsg, now, reply>>

\* ---- the transport loop (run_forever) --------------------------------------------
\* ws is the place of run_forever: "connecting" (at websockets.connect),
\* "streaming" (in the receive loop), "failed" (an exception reached the outer
\* except clause) and "sleeping" (in the sleep before the next attempt).
\* Seconds of the backoff are whole numbers; sleep_for is kept in tenths of a
\* second so that the jitter shows.
BackoffFloor == 1   \* backoff = 1.0

BackoffCap == 30    \* min(backoff * 2, 30.0)

Jitters == 0..5     \* random.uniform(0, 0.5), in tenths of a second

PingInterval == 20  \* await asyncio.sleep(20)

\* websockets.connect and the Authenticate frame; `ok` is FALSE when either
\* of them raises.
\* When they succeed the heartbeat task of the connection is created
\* (asyncio.create_task(self.ws_ping_loop(ws))); its first sleep ends
\* PingInterval later.
ws_connect(ok) ==
    /\ ws = "connecting"
    /\ ok => Len(pings) < MaxPings
    /\ ws' = IF ok THEN "streaming" ELSE "failed"
    /\ backoff' = IF ok THEN BackoffFloor ELSE backoff
    /\ pings' = IF ok THEN Append(pings, now + PingInterval) ELSE pings
    /\ UNCHANGED <<store, nav_cleanup_tasks, tasks, cleared, inflight, touched, rest, self_user_id, text, sleep_for,
                   nextMsg, now, reply>>

\* ws_recv_failed with the exception leaving run_forever.
ws_recv_failed_exits ==
    /\ ws = "streaming"
    /\ inflight = {}
    /\ ws' = "exited"
    /\ UNCHANGED <<store, nav_cleanup_tasks, tasks, cleared, inflight, touched, pings, rest, self_user_id, text, backoff,
                   sleep_for, nextMsg, now, reply>>

\* ws.recv() raises (the connection dropped or was closed).
ws_recv_failed ==
    /\ ws = "streaming"
    /\ inflight = {}
    /\ ws' = "failed"
    /\ UNCHANGED <<store, nav_cleanup_tasks, tasks, cleared, inflight, touched, pings, rest, self_user_id, text, backoff, sleep_for,
                   nextMsg, now, reply>>

\* A frame the loop passes over or handle_event returns from at once: a
\* non-text frame, an event of another type, a message that is no command.
ws_frame_skipped ==
    /\ ws = "streaming"
    /\ inflight = {}
    /\ reply' = Reply("skipped")
    /\ UNCHANGED <<store, nav_cleanup_tasks, tasks, nextMsg, now, aux>>

\* The loop of rb.py at a text frame that is not JSON: json.loads is not
\* guarded there and the exception reaches the outer except clause.
ws_json_decode_failed_disconnects ==
    /\ ws = "streaming"
    /\ inflight = {}
    /\ ws' = "failed"
    /\ reply' = Reply("undecodable")
    /\ UNCHANGED <<store, nav_cleanup_tasks, tasks, cleared, inflight, touched, pings, rest, self_user_id, text,
                   backoff, sleep_for, nextMsg, now>>

\* A text frame that is not JSON: json.loads raises, "JSON decode failed" is
\* logged and the loop continues with the next ws.recv().
ws_json_decode_failed ==
    /\ ws = "streaming"
    /\ inflight = {}
    /\ reply' = Reply("undecodable")
    /\ UNCHANGED <<store, nav_cleanup_tasks, tasks, nextMsg, now, aux>>

\* handle_event_raises with the exception caught and logged where it is
\* re-raised.
handle_event_raises_caught ==
    /\ ws = "streaming"
    /\ inflight = {}
    /\ reply' = Reply("exception")
    /\ UNCHANGED <<store, nav_cleanup_tasks, tasks, nextMsg, now, aux>>

\* A decoded frame whose dispatch raises before any handler is reached: JSON
\* that is no object (event.get raises AttributeError), a Bulk whose "v" is
\* no list of objects, a Ready whose "users" cannot be indexed, a Message
\* whose content is no string.  None of it is inside a try of handle_event;
\* run_forever logs "Event handling failed" and re-raises.
handle_event_raises ==
    /\ ws = "streaming"
    /\ inflight = {}
    /\ ws' = "failed"
    /\ reply' = Reply("exception")
    /\ UNCHANGED <<store, nav_cleanup_tasks, tasks, cleared, inflight, touched, pings, rest, self_user_id, text,
                   backoff, sleep_for, nextMsg, now>>

\* The events log after the r.say notes of the authors `us`, handled one after
\* the other: each inner handle_event runs cmd_say to its end (an author who
\* is neither a player nor the owner is answered and adds nothing).
RECURSIVE bulk_say(_, _, _)
bulk_say(log, c, us) ==
    IF us = <<>> THEN log
    ELSE LET u == Head(us)
             ok == player_in_game(c, u) \/ is_op(GameRow(c), u)
         IN  bulk_say(
                 IF ok THEN Append(log, [turn_number |-> GameRow(c).turn_number,
                                         user_id |-> u, event_type |-> "note"])
                 ELSE log,
                 c, Tail(us))

\* A Bulk frame whose "v" lists r.say messages (one word each) of the authors
\* `us` in channel c: `for inner in event.get("v", []): await
\* self.handle_event(inner)`.  reply is the answer to the last of them.
handle_event_bulk(c, us) ==
    /\ us # <<>>
    /\ IF game_get(c) = {}
       THEN /\ reply' = Reply("no_game")
            /\ UNCHANGED <<store, nav_cleanup_tasks, tasks, nextMsg, now, aux>>
       ELSE LET last == us[Len(us)]
            IN  /\ Cardinality({i \in 1..Len(events[c]) : events[c][i].event_type = "note"})
                      + Len(us) <= MaxNotes
                /\ events' = [events EXCEPT ![c] = bulk_say(@, c, us)]
                /\ reply' = IF player_in_game(c, last) \/ is_op(GameRow(c), last)
                            THEN ReplyTurn("note_added", GameRow(c).turn_number)
                            ELSE Reply("not_joined")
                /\ UNCHANGED <<games, players, rolls, alliances, naps, turnmaps, turnplayers,
                               nav, nav_cleanup_tasks, tasks, nextMsg, now, aux>>

\* ws_sleep without the finally clause: the heartbeat task is left running.
ws_sleep_no_cancel(jitter) ==
    /\ ws = "failed"
    /\ sleep_for' = backoff * 10 + jitter
    /\ ws' = "sleeping"
    /\ UNCHANGED <<store, nav_cleanup_tasks, tasks, cleared, inflight, touched, pings, rest, self_user_id, text,
                   backoff, nextMsg, now, reply>>

\* After the except clause: the finally clause cancels ping_task (the task
\* this attempt created, the latest, when it is still live), then jitter,
\* sleep_for = backoff + jitter.
ws_sleep(jitter) ==
    /\ ws = "failed"
    /\ pings' = Front(pings)
    /\ sleep_for' = backoff * 10 + jitter
    /\ ws' = "sleeping"
    /\ UNCHANGED <<store, nav_cleanup_tasks, tasks, cleared, inflight, touched, rest, self_user_id, text, backoff,
                   nextMsg, now, reply>>

\* One round of heartbeat task i: its sleep is over and it sends a Ping.
\* The send can succeed only on the open connection, the one of the latest
\* task while the loop is streaming; when it raises the task logs and returns.
ws_ping_loop(i, ok) ==
    /\ i \in DOMAIN pings
    /\ now >= pings[i]
    /\ ok => (i = Len(pings) /\ ws = "streaming")
    /\ pings' = IF ok THEN [pings EXCEPT ![i] = now + PingInterval]
                 ELSE [k \in 1..(Len(pings) - 1) |-> IF k < i THEN pings[k] ELSE pings[k + 1]]
    /\ UNCHANGED <<store, nav_cleanup_tasks, tasks, cleared, inflight, touched, rest, self_user_id, text, ws,
                   backoff, sleep_for, nextMsg, now, reply>>

\* ws_wake doubling without the cap.
ws_wake_uncapped ==
    /\ ws = "sleeping"
    /\ backoff' = backoff * 2
    /\ ws' = "connecting"
    /\ UNCHANGED <<store, nav_cleanup_tasks, tasks, cleared, inflight, touched, pings, rest, self_user_id, text, sleep_for,
                   nextMsg, now, reply>>

\* The sleep is over: backoff = min(backoff * 2, 30.0), and round the loop.
ws_wake ==
    /\ ws = "sleeping"
    /\ backoff' = IF backoff * 2 > BackoffCap THEN BackoffCap ELSE backoff * 2
    /\ ws' = "connecting"
    /\ UNCHANGED <<store, nav_cleanup_tasks, tasks, cleared, inflight, touched, pings, rest, self_user_id, text, sleep_for,
                   nextMsg, now, reply>>

\* ---- one REST call (ApiClient.request_json; rb.py's post_json is the same loop) ----
\* rest.pc is "idle" before the first call, "requesting" while the loop
\* `for attempt in range(5)` awaits a response, "returned" afterwards; rest
\* counts the HTTP requests issued and lists the sleeps, in milliseconds.
RetryBudget == 5    \* range(5)

Statuses == {200, 404, 500, 429}

\* data.get("retry_after") of a response whose body is a JSON object or not
\* JSON at all (data = {}): absent, not a number, or a number of milliseconds.
RetryAfters ==
    {[kind |-> "absent", ms |-> 0], [kind |-> "text", ms |-> 0]}
        \cup {[kind |-> "number", ms |-> n] : n \in {-1, 0, 500, 1500}}

\* The sleep after a 429, in milliseconds: retry_after_ms / 1000.0 seconds
\* when it is a number above 0, otherwise 1.0 + attempt seconds.
retry_delay(attempt, retry_after_ms) ==
    IF retry_after_ms.kind = "number" /\ retry_after_ms.ms > 0
    THEN retry_after_ms.ms
    ELSE (1 + attempt) * 1000

\* request_json is called.
request_json ==
    /\ rest.pc # "requesting"
    /\ rest' = [pc |-> "requesting", status |-> 0, requests |-> 0, slept |-> <<>>]
    /\ UNCHANGED <<store, nav_cleanup_tasks, tasks, cleared, inflight, touched, pings, self_user_id, text, ws,
                   backoff, sleep_for, nextMsg, now, reply>>

\* request_json_response retrying every error status.
request_json_response_any_error(status, retry_after_ms) ==
    /\ rest.pc = "requesting"
    /\ LET attempt == rest.requests
       IN  rest' = IF status < 400
                   THEN [rest EXCEPT !.pc = "returned", !.status = status,
                                     !.requests = @ + 1]
                   ELSE [pc |-> IF attempt + 1 < RetryBudget THEN "requesting" ELSE "returned",
                         status |-> IF attempt + 1 < RetryBudget THEN 0 ELSE 429,
                         requests |-> attempt + 1,
                         slept |-> Append(rest.slept, retry_delay(attempt, retry_after_ms))]
    /\ UNCHANGED <<store, nav_cleanup_tasks, tasks, cleared, inflight, touched, pings, self_user_id, text, ws,
                   backoff, sleep_for, nextMsg, now, reply>>

\* One round of the loop: the response to the request of this attempt has
\* arrived.  Anything but a 429 is returned; after a 429 the call sleeps and,
\* when that was the last attempt, returns 429.
request_json_response(status, retry_after_ms) ==
    /\ rest.pc = "requesting"
    /\ LET attempt == rest.requests
       IN  rest' = IF status # 429
                   THEN [rest EXCEPT !.pc = "returned", !.status = status,
                                     !.requests = @ + 1]
                   ELSE [pc |-> IF attempt + 1 < RetryBudget THEN "requesting" ELSE "returned",
                         status |-> IF attempt + 1 < RetryBudget THEN 0 ELSE 429,
                         requests |-> attempt + 1,
                         slept |-> Append(rest.slept, retry_delay(attempt, retry_after_ms))]
    /\ UNCHANGED <<store, nav_cleanup_tasks, tasks, cleared, inflight, touched, pings, self_user_id, text, ws,
                   backoff, sleep_for, nextMsg, now, reply>>

\* ---- the length of a rendered text -------------------------------------------------
\* A text is modelled by the lengths of its lines, len() counting code points.
TextBudget == 1900      \* `if len(text) > 1900`
MarkerLen == 13         \* len("_(truncated)_")
BodyKept == 50          \* body[:50]
LinesKept == 120        \* lines[:120]
IdLen == 26             \* a user id of the server (a ULID)

RECURSIVE SumLen(_)
SumLen(lines) == IF lines = <<>> THEN 0 ELSE Head(lines) + SumLen(Tail(lines))

\* len("\n".join(lines))
joined_len(lines) == IF lines = <<>> THEN 0 ELSE SumLen(lines) + Len(lines) - 1

\* seq[:n]
Take(seq, n) == SubSeq(seq, 1, IF n < Len(seq) THEN n ELSE Len(seq))

Digits(n) == IF n < 10 THEN 1 ELSE IF n < 100 THEN 2 ELSE 3

\* The text of render_turn_view for a roster of n members whose names are
\* name_len long (none has an order text or a roll link, so a member's line is
\* as long with a roll as without), the map line ending in map_len
\* characters; turn numbers have one digit.
turn_view_text(n, name_len, map_len) ==
    LET player_lines == [i \in 1..n |-> name_len + IdLen + 11]
        header == <<16, 6 + IdLen, 36, 13 + Digits(n), 0, 16,
                    IF n = 0 THEN 8 ELSE joined_len(player_lines),
                    0, 18 + map_len, 0, 43>>
        body == [i \in 1..n |-> name_len + IdLen + 28]
        full == joined_len(header \o body)
    IN  [full |-> full,
         len |-> IF full > TextBudget
                 THEN joined_len(header \o Take(body, BodyKept) \o <<0, MarkerLen>>)
                 ELSE full,
         marked |-> full > TextBudget]

\* The text of render_events_view for a page of k events whose summaries,
\* mentions rewritten by render_no_ping, are event_len long; turn and page
\* numbers have one digit.
events_view_text(k, event_len) ==
    LET lines == <<17, 36, 52, 0>>
                 \o (IF k = 0 THEN <<36>> ELSE [i \in 1..k |-> 2 + event_len])
        full == joined_len(lines)
    IN  [full |-> full,
         len |-> IF full > TextBudget
                 THEN joined_len(Take(lines, LinesKept) \o <<0, MarkerLen>>)
                 ELSE full,
         marked |-> full > TextBudget]

\* render_turn_view returns.
render_turn_view_returns(n, name_len, map_len) ==
    /\ text' = [view |-> "game"] @@ turn_view_text(n, name_len, map_len)
    /\ UNCHANGED <<store, nav_cleanup_tasks, tasks, nextMsg, now, reply, cleared, inflight,
                   touched, pings, rest, self_user_id, ws, backoff, sleep_for>>

\* render_events_view returns.
render_events_view_returns(k, event_len) ==
    /\ text' = [view |-> "events"] @@ events_view_text(k, event_len)
    /\ UNCHANGED <<store, nav_cleanup_tasks, tasks, nextMsg, now, reply, cleared, inflight,
                   touched, pings, rest, self_user_id, ws, backoff, sleep_for>>

\* ---- handle_event on Ready and Message frames ------------------------------------
\* A Ready frame: `user` is the id it carries, NoUser when it carries neither
\* a "user" string nor a first entry of "users" with an "_id".
handle_event_ready(user) ==
    /\ inflight = {}
    /\ self_user_id' = IF user # NoUser THEN user ELSE self_user_id
    /\ reply' = Reply("ready")
    /\ UNCHANGED <<store, nav_cleanup_tasks, tasks, nextMsg, now, cleared, inflight,
                   touched, pings, rest, text, ws, backoff, sleep_for>>

\* The commands a Message frame is dispatched to below.
MessageCmds == {"start", "join", "game", "mup"}

\* A Message frame of `author` whose content parses to the command `cmd`:
\* the bot's own message is dropped before parse_command, any other is
\* handed to self.commands[cmd].  `sent_id` is the id the server gives a
\* browser the command publishes (0: the send failed).
handle_event_message(c, author, cmd, sent_id) ==
    /\ inflight = {}
    /\ IF FromSelf(author)
       THEN /\ reply' = Reply("own_message")
            /\ UNCHANGED <<store, nav_cleanup_tasks, tasks, nextMsg, now, aux>>
       ELSE CASE cmd = "start" -> cmd_start(c, author, [id |-> "a0", fn |-> "f0"])
              [] cmd = "join" -> cmd_join(c, author, "")
              [] cmd = "game" -> cmd_game(c, sent_id, TRUE)
              [] cmd = "mup" -> cmd_mup(c, author, NoImage, sent_id, TRUE)

\* ---- the clock ----------------------------------------------------------------
TickTo(limit) ==
    /\ now < limit
    /\ now' = now + 1
    /\ UNCHANGED <<store, nav_cleanup_tasks, tasks, nextMsg, reply, aux>>

Tick == TickTo(MaxTime)

\* The clock read again d seconds later, nothing having happened in between.
TickBy(d, limit) ==
    /\ now + d <= limit
    /\ now' = now + d
    /\ UNCHANGED <<store, nav_cleanup_tasks, tasks, nextMsg, reply, aux>>

\* ---- the store after construction (empty tables) --------------------------------
Init ==
    /\ games = {}
    /\ players = [c \in Channels |-> <<>>]
    /\ rolls = [c \in Channels |-> <<>>]
    /\ events = [c \in Channels |-> <<>>]
    /\ alliances = {}
    /\ naps = {}
    /\ turnmaps = {}
    /\ turnplayers = [c \in Channels |-> [t \in 0..MaxTurn |-> <<>>]]
    /\ nav = {}
    /\ nav_cleanup_tasks = {}
    /\ tasks = {}
    /\ cleared = {}
    /\ inflight = {}
    /\ touched = [m \in MsgIds |-> 0]
    /\ pings = <<>>
    /\ rest = [pc |-> "idle", status |-> 0, requests |-> 0, slept |-> <<>>]
    /\ self_user_id = NoUser
    /\ text = [view |-> "none", full |-> 0, len |-> 0, marked |-> FALSE]
    /\ ws = "connecting"
    /\ backoff = BackoffFloor
    /\ sleep_for = 0
    /\ nextMsg = 1
    /\ now = 0
    /\ reply = Reply("none")

\* ---- specifications -------------------------------------------------------------
\* The two renderers on rosters from none to more members than the body
\* keeps, names from one character to a full message, a page of no event up
\* to a full page, summaries from a join's to a note of the longest size.
RosterSizes == {0, 1, 2, 10, 20, 50, 51, 60}

NameLens == {1, 6, 12, 32, 1900}

MapLens == {17, 80}

EventLens == {51, 120, 532}

Attachments == Images \cup {NoImage}

Targets == Users \cup {NoUser}

\* Every handler and every step over every channel, user and argument; the
\* specifications below take parts of it.
Next ==
    \/ \E c \in Channels, u \in Users, att \in Attachments : cmd_start(c, u, att)
    \/ \E c \in Channels, u \in Users : cmd_reset(c, u)
    \/ \E c \in Channels, u \in Users, att \in Attachments, sent_id \in 0..MaxMsgs,
          reacted \in BOOLEAN : cmd_mup(c, u, att, sent_id, reacted)
    \/ \E c \in Channels, u \in Users, arg \in NameArgs : cmd_join(c, u, arg)
    \/ \E c \in Channels, u \in Users : cmd_quit(c, u)
    \/ \E c \in Channels, u \in Users, target \in Targets, arg \in NameArgs :
          cmd_add(c, u, target, arg)
    \/ \E c \in Channels, u \in Users, value \in RollValues : cmd_roll(c, u, value)
    \/ \E c \in Channels, u \in Users, dice \in DiceArgs, value \in RollValues :
          cmd_dnd(c, u, dice, value)
    \/ \E c \in Channels, u \in Users, target \in Targets : cmd_ally(c, u, target)
    \/ \E c \in Channels, u \in Users, target \in Targets : cmd_betray(c, u, target)
    \/ \E c \in Channels, u \in Users, target \in Targets : cmd_nap(c, u, target)
    \/ \E c \in Channels, u \in Users, target \in Targets : cmd_break(c, u, target)
    \/ \E c \in Channels, u \in Users, note \in Notes, outcome \in {"sent", "raise"} :
          cmd_say(c, u, note, outcome)
    \/ \E c \in Channels, sent_id \in 0..MaxMsgs, reacted \in BOOLEAN :
          cmd_game(c, sent_id, reacted)
    \/ \E c \in Channels, arg \in TurnArgs, sent_id \in 0..MaxMsgs, reacted \in BOOLEAN :
          cmd_events(c, arg, sent_id, reacted)
    \/ \E m \in MsgIds, c \in Channels, u \in Users \cup {BotUser}, emoji_id \in Emojis,
          cl \in {"ok", "fail", "raise"} : handle_nav_react(m, c, u, emoji_id, cl)
    \/ \E edited \in {"ok", "fail", "raise"} : handle_nav_react_edited(edited)
    \/ \E id \in TaskIds, cl \in {"ok", "fail", "raise"} : worker_loop(id, cl)
    \/ \E id \in TaskIds : worker_cleared(id)
    \/ \E id \in TaskIds : worker_cancelled(id)
    \/ \E ok \in BOOLEAN : ws_connect(ok)
    \/ ws_recv_failed
    \/ ws_frame_skipped
    \/ ws_json_decode_failed
    \/ handle_event_raises
    \/ \E c \in Channels, a \in Users, b \in Users : handle_event_bulk(c, <<a, b>>)
    \/ \E jitter \in Jitters : ws_sleep(jitter)
    \/ ws_wake
    \/ \E d \in 1..MaxClock : TickBy(d, MaxClock)
    \/ \E i \in 1..MaxPings, ok \in BOOLEAN : ws_ping_loop(i, ok)
    \/ request_json
    \/ \E status \in Statuses, retry_after_ms \in RetryAfters :
          request_json_response(status, retry_after_ms)
    \/ \E user \in {NoUser, BotUser} : handle_event_ready(user)
    \/ \E c \in Channels, author \in Users \cup {BotUser}, cmd \in MessageCmds,
          sent_id \in 0..MaxMsgs : handle_event_message(c, author, cmd, sent_id)
    \/ \E n \in RosterSizes, name_len \in NameLens, map_len \in MapLens :
          render_turn_view_returns(n, name_len, map_len)
    \/ \E k \in 0..PageSize, event_len \in EventLens : render_events_view_returns(k, event_len)
    \/ TickTo(MaxClock)

Spec == Init /\ [][Next]_vars

\* Diplomacy in one session: a game is started, its two players join (each
\* once), and both send the four diplomacy commands in any order while the
\* clock runs.
RelUsers == {1, 2}

NextRel ==
    \/ cmd_start("c1", 1, [id |-> "a0", fn |-> "f0"])
    \/ \E u \in RelUsers : ~player_in_game("c1", u) /\ cmd_join("c1", u, "Alice")
    \/ \E u \in RelUsers, target \in RelUsers : cmd_ally("c1", u, target)
    \/ \E u \in RelUsers, target \in RelUsers : cmd_betray("c1", u, target)
    \/ \E u \in RelUsers, target \in RelUsers : cmd_nap("c1", u, target)
    \/ \E u \in RelUsers, target \in RelUsers : cmd_break("c1", u, target)
    \/ Tick

SpecRel == Init /\ [][NextRel]_vars

\* Turn history of one session: every command that is not diplomacy, sent by
\* two users within one second of the clock.
TurnUsers == {1, 2}

NextTurn ==
    \/ \E att \in {NoImage, [id |-> "a0", fn |-> "f0"]} :
          cmd_start("c1", 1, att)   \* user 1 starts every session, user 2 is never owner
    \/ \E u \in TurnUsers : cmd_reset("c1", u)
    \/ \E u \in TurnUsers, att \in {NoImage, [id |-> "a1", fn |-> "f1"]},
          sent_id \in 0..MaxMsgs : cmd_mup("c1", u, att, sent_id, TRUE)
    \/ \E u \in TurnUsers, arg \in NameArgs : cmd_join("c1", u, arg)
    \/ \E u \in TurnUsers : cmd_quit("c1", u)
    \/ \E u \in TurnUsers, target \in TurnUsers : cmd_add("c1", u, target, "")
    \/ \E u \in TurnUsers : cmd_roll("c1", u, "r1")

SpecTurn == Init /\ [][NextTurn]_vars

\* Browsing one session: user 1 starts it, leaves notes during turn 0 and
\* advances turns, opens one browser (message 1) and reacts on it; the clock
\* stands still.
Idle == inflight = {}

NextNav ==
    \/ Idle /\ cmd_start("c1", 1, [id |-> "a0", fn |-> "f0"])
    \/ Idle /\ (HasGame("c1") => GameRow("c1").turn_number = 0) /\ cmd_say("c1", 1, 1, "sent")
    \/ Idle /\ cmd_mup("c1", 1, NoImage, 0, TRUE)
    \/ Idle /\ \E sent_id \in {0, 1} : cmd_game("c1", sent_id, TRUE)
    \/ Idle /\ \E arg \in TurnArgs, sent_id \in {0, 1} : cmd_events("c1", arg, sent_id, TRUE)
    \/ \E emoji_id \in Emojis : handle_nav_react(1, "c1", 1, emoji_id, "ok")
    \/ \E edited \in {"ok", "fail"} : handle_nav_react_edited(edited)
    \/ \E id \in TaskIds : worker_cancelled(id)

SpecNav == Init /\ [][NextNav]_vars

\* The life of one browser (message 1) of one session while the clock runs
\* past the inactivity window: in second 0 user 1 starts the session, may
\* advance it to turn 1, and opens the browser; from then on user 2 reacts,
\* user 1 may end the session, and the supervisors take their steps.
\* Reactions arrive in the first seconds of the window and in the seconds
\* around its end.  With `gated` no reaction and no edit opens a window the
\* clock cannot see the end of.
ReactTimes == {0, 1, NavWindow - 1, NavWindow, NavWindow + 1, NavWindow + 2}

ReactRoom == now + NavWindow + 1 <= MaxClock

ExpirySteps(gated) ==
    \/ Idle /\ now = 0 /\ cmd_start("c1", 1, [id |-> "a0", fn |-> "f0"])
    \/ Idle /\ now = 0 /\ (\A g \in games : g.turn_number = 0) /\ nav = {}
            /\ cmd_mup("c1", 1, NoImage, 0, TRUE)
    \/ Idle /\ now = 0 /\ \E reacted \in BOOLEAN : cmd_game("c1", 1, reacted)
    \/ Idle /\ cmd_reset("c1", 1)
    \/ \E cl \in {"ok", "fail"} :
          /\ now \in ReactTimes
          /\ gated => ReactRoom \/ \A n \in nav_get(1) : now - n.updated_at > NavWindow
          /\ handle_nav_react(1, "c1", 2, "fwd", cl)
    \/ \E edited \in {"ok", "fail"} :
          (gated => ReactRoom) /\ handle_nav_react_edited(edited)
    \/ \E id \in TaskIds, cl \in {"ok", "fail", "raise"} : worker_loop(id, cl)
    \/ \E id \in TaskIds : worker_cleared(id)
    \/ \E id \in TaskIds : worker_cancelled(id)
    \/ TickTo(MaxClock)

NextExpiry == ExpirySteps(FALSE)

SpecExpiry == Init /\ [][NextExpiry]_vars

\* The same with the scheduling of the event loop: the clock goes on and a
\* task that can run is run.
NextExpiryLive == ExpirySteps(TRUE)

SpecExpiryLive ==
    /\ Init
    /\ [][NextExpiryLive]_vars
    /\ WF_vars(TickTo(MaxClock))
    /\ \A id \in TaskIds :
          /\ WF_vars(\E cl \in {"ok", "fail", "raise"} : worker_loop(id, cl))
          /\ WF_vars(worker_cleared(id))
          /\ WF_vars(worker_cancelled(id))

\* Everything a session owns: user 1 starts the session, advances it, opens
\* a browser (message 1) and ends the session, both users join, user 1 rolls
\* and offers user 2 an alliance and a pact, user 2 reacts on the browser, the
\* supervisors start.
OwnUsers == {1, 2}

NextOwn ==
    \/ Idle /\ cmd_start("c1", 1, [id |-> "a0", fn |-> "f0"])
    \/ Idle /\ \E u \in OwnUsers : cmd_reset("c1", u)
    \/ Idle /\ cmd_mup("c1", 1, NoImage, 0, TRUE)
    \/ Idle /\ \E sent_id \in {0, 1} : cmd_game("c1", sent_id, TRUE)
    \/ Idle /\ \E u \in OwnUsers : ~player_in_game("c1", u) /\ cmd_join("c1", u, "Alice")
    \/ Idle /\ cmd_roll("c1", 1, "r1")
    \/ Idle /\ cmd_ally("c1", 1, 2)
    \/ Idle /\ cmd_nap("c1", 1, 2)
    \/ handle_nav_react(1, "c1", 2, "fwd", "ok")
    \/ \E edited \in {"ok", "fail"} : handle_nav_react_edited(edited)
    \/ \E id \in TaskIds : worker_loop(id, "ok")
    \/ \E id \in TaskIds : worker_cancelled(id)

SpecOwn == Init /\ [][NextOwn]_vars

\* The transport loop with a session behind it: while the connection
\* streams, user 1 starts a session, leaves its first note (the reply to it
\* may raise), advances to turn 1 and opens a browser, and user 2 reacts on it
\* (the edit may raise).
\* The loop reading the next frame whether or not handle_event has returned.
DispatchReady_any == ws = "streaming"

\* A frame is dispatched when the loop is at ws.recv().
DispatchReady == ws = "streaming" /\ inflight = {}

NextWs ==
    \/ \E ok \in BOOLEAN : ws_connect(ok)
    \/ ws_recv_failed
    \/ ws_frame_skipped
    \/ \E jitter \in Jitters : ws_sleep(jitter)
    \/ ws_wake
    \/ DispatchReady /\ cmd_start("c1", 1, [id |-> "a0", fn |-> "f0"])
    \/ DispatchReady /\ Len(events["c1"]) < 2
          /\ \E note \in Notes, outcome \in {"sent", "raise"} : cmd_say("c1", 1, note, outcome)
    \/ DispatchReady /\ (\A g \in games : g.turn_number = 0) /\ nav = {}
          /\ cmd_mup("c1", 1, NoImage, 0, TRUE)
    \/ DispatchReady /\ cmd_game("c1", 1, TRUE)
    \/ DispatchReady /\ \E cl \in {"ok", "fail", "raise"} :
          handle_nav_react(1, "c1", 2, "fwd", cl)
    \/ \E edited \in {"ok", "fail", "raise"} : handle_nav_react_edited(edited)
    \/ \E id \in TaskIds : worker_cancelled(id)

SpecWs == Init /\ [][NextWs]_vars

\* The same with the scheduling of the event loop: a connection attempt comes
\* to an end, the except clause is left, the sleep is over.
SpecWsLive ==
    /\ Init
    /\ [][NextWs]_vars
    /\ WF_vars(\E ok \in BOOLEAN : ws_connect(ok))
    /\ WF_vars(\E jitter \in Jitters : ws_sleep(jitter))
    /\ WF_vars(ws_wake)

\* Frames of every kind on one connection after the other: frames that do not
\* decode, frames whose dispatch raises, a Bulk of two notes, commands whose
\* reply may raise, and reactions whose edit may raise.  User 1 starts the
\* session, user 2 joins it, the owner advances to turn 1 and opens a browser.
NextDispatch ==
    \/ \E ok \in BOOLEAN : ws_connect(ok)
    \/ ws_recv_failed
    \/ ws_frame_skipped
    \/ ws_json_decode_failed
    \/ handle_event_raises
    \/ ws_sleep(0)
    \/ ws_wake
    \/ DispatchReady /\ cmd_start("c1", 1, [id |-> "a0", fn |-> "f0"])
    \/ DispatchReady /\ Len(events["c1"]) = 1 /\ cmd_join("c1", 2, "")
    \/ DispatchReady /\ Len(events["c1"]) = 2
          /\ \E us \in {<<1, 2>>, <<2, 1>>} : handle_event_bulk("c1", us)
    \/ DispatchReady /\ Len(events["c1"]) < 2
          /\ \E outcome \in {"sent", "raise"} : cmd_say("c1", 1, 1, outcome)
    \/ DispatchReady /\ (\A g \in games : g.turn_number = 0) /\ nav = {}
          /\ cmd_mup("c1", 1, NoImage, 0, TRUE)
    \/ DispatchReady /\ cmd_game("c1", 1, TRUE)
    \/ DispatchReady /\ \E cl \in {"ok", "fail", "raise"} :
          handle_nav_react(1, "c1", 2, "fwd", cl)
    \/ \E edited \in {"ok", "fail", "raise"} : handle_nav_react_edited(edited)
    \/ \E id \in TaskIds : worker_cancelled(id)

SpecDispatch == Init /\ [][NextDispatch]_vars

\* REST calls one after the other, each against a server that answers every
\* request with any status and any retry_after; an HTTP request comes to an
\* end (aiohttp's total timeout), so a response step is always taken.
NextRest ==
    \/ request_json
    \/ \E status \in Statuses, retry_after_ms \in RetryAfters :
          request_json_response(status, retry_after_ms)

SpecRest ==
    /\ Init
    /\ [][NextRest]_vars
    /\ WF_vars(\E status \in Statuses, retry_after_ms \in RetryAfters :
                  request_json_response(status, retry_after_ms))

\* Commands that are refused next to commands that are not: user 1 owns the
\* session, user 2 joins it, user 3 stays outside; every command comes with
\* arguments that are missing, malformed or out of range as well as good ones.
RejectTargets == {NoUser, 1, 2, 3}

NextReject ==
    \/ \E att \in {NoImage, [id |-> "a0", fn |-> "f0"]} : cmd_start("c1", 1, att)
    \/ \E u \in {1, 2} : cmd_reset("c1", u)
    \/ cmd_join("c1", 2, "")
    \/ \E u \in {2, 3} : cmd_quit("c1", u)
    \/ \E u \in {1, 2}, target \in {NoUser, 2} : cmd_add("c1", u, target, "")
    \/ \E u \in {2, 3} : cmd_roll("c1", u, "r1")
    \/ \E u \in {2, 3}, dice \in DiceArgs : cmd_dnd("c1", u, dice, "r2")
    \/ \E u \in {2, 3}, target \in RejectTargets : cmd_ally("c1", u, target)
    \/ \E u \in {2, 3}, target \in RejectTargets : cmd_betray("c1", u, target)
    \/ \E u \in {2, 3}, target \in RejectTargets : cmd_nap("c1", u, target)
    \/ \E u \in {2, 3}, target \in RejectTargets : cmd_break("c1", u, target)
    \/ \E u \in {1, 2} : cmd_mup("c1", u, NoImage, 1, TRUE)
    \/ \E arg \in TurnArgs : cmd_events("c1", arg, 1, TRUE)
    \/ \E u \in {2, 3}, note \in Notes :
          Len(events["c1"]) < 3 /\ cmd_say("c1", u, note, "sent")

SpecReject == Init /\ [][NextReject]_vars

\* Rolling in one session: user 1 starts it and advances the turn, users 2 and
\* 3 join, ally and agree on a pact, and both roll with r.roll and r.dnd.
RollUsers == {2, 3}

NextRoll ==
    \/ cmd_start("c1", 1, [id |-> "a0", fn |-> "f0"])
    \/ \E u \in RollUsers : ~player_in_game("c1", u) /\ cmd_join("c1", u, "")
    \/ \E u \in RollUsers, target \in RollUsers : cmd_ally("c1", u, target)
    \/ cmd_nap("c1", 3, 2)
    \/ cmd_mup("c1", 1, [id |-> "a1", fn |-> "f1"], 0, TRUE)
    \/ \E u \in RollUsers, value \in RollValues : cmd_roll("c1", u, value)
    \/ \E u \in RollUsers, dice \in DiceArgs : cmd_dnd("c1", u, dice, "r2")

SpecRoll == Init /\ [][NextRoll]_vars

\* Two channels side by side.  In c1, while the clock is at 0, user 1 starts a
\* session, advances it to turn 1 and opens a browser; later user 2 reacts on
\* the browser (the event carries the channel of the message it was made
\* on), its supervisors run and the clock goes on.  In c2, while the clock is
\* at 0, user 1 starts a session, users 2 and 3 join, offer each other an
\* alliance and a pact, and user 2 rolls.  Either session can be ended at any
\* time; the clock is read again when the window of a browser has passed.
NextChan ==
    \/ Idle /\ now = 0 /\ \E c \in Channels : cmd_start(c, 1, [id |-> "a0", fn |-> "f0"])
    \/ Idle /\ \E c \in Channels : cmd_reset(c, 1)
    \/ Idle /\ now = 0 /\ (\A g \in games : g.channel_id = "c1" => g.turn_number = 0)
            /\ cmd_mup("c1", 1, NoImage, 0, TRUE)
    \/ Idle /\ now = 0 /\ cmd_game("c1", 1, TRUE)
    \/ handle_nav_react(1, "c1", 2, "fwd", "ok")
    \/ handle_nav_react_edited("ok")
    \/ Idle /\ now = 0 /\ \E u \in {2, 3} : ~player_in_game("c2", u) /\ cmd_join("c2", u, "")
    \/ Idle /\ now = 0 /\ cmd_ally("c2", 2, 3)
    \/ Idle /\ now = 0 /\ cmd_nap("c2", 3, 2)
    \/ Idle /\ now = 0 /\ rolls["c2"] = <<>> /\ cmd_roll("c2", 2, "r1")
    \/ \E id \in TaskIds : worker_loop(id, "ok")
    \/ \E id \in TaskIds : worker_cleared(id)
    \/ \E id \in TaskIds : worker_cancelled(id)
    \/ TickBy(NavWindow + 1, MaxClock)

SpecChan == Init /\ [][NextChan]_vars

\* The transport loop with its heartbeat: connections are made and lost while
\* the clock runs in steps of half the heartbeat interval, and every live
\* heartbeat task sends its Ping when its sleep is over (the send may fail).
NextPing ==
    \/ \E ok \in BOOLEAN : ws_connect(ok)
    \/ ws_recv_failed
    \/ handle_event_raises
    \/ ws_json_decode_failed
    \/ ws_sleep(0)
    \/ ws_wake
    \/ \E i \in 1..MaxPings, ok \in BOOLEAN : ws_ping_loop(i, ok)
    \/ TickBy(PingInterval \div 2, MaxClock)

SpecPing == Init /\ [][NextPing]_vars

\* The bot among its users: Ready frames (with and without an identity),
\* Message frames of user 1 and of the bot itself while the clock is at 0
\* (each joins once, the session is advanced once),
\* reactions of user 2 and of the bot on the browser (message 1), and the
\* browser's supervisors while the clock passes the inactivity window.
SelfUsers == {1, BotUser}

NextSelf ==
    \/ \E user \in {NoUser, BotUser} : handle_event_ready(user)
    \/ \E author \in SelfUsers, cmd \in MessageCmds, sent_id \in {0, 1} :
          /\ now = 0
          /\ cmd = "join" => ~player_in_game("c1", author)
          /\ cmd = "mup" => \A g \in games : g.turn_number = 0
          /\ handle_event_message("c1", author, cmd, sent_id)
    \/ \E u \in {2, BotUser} : handle_nav_react(1, "c1", u, "fwd", "ok")
    \/ \E edited \in {"ok", "fail"} : handle_nav_react_edited(edited)
    \/ \E id \in TaskIds : worker_loop(id, "ok")
    \/ \E id \in TaskIds : worker_cleared(id)
    \/ \E id \in TaskIds : worker_cancelled(id)
    \/ TickBy(NavWindow + 1, MaxClock)

SpecSelf == Init /\ [][NextSelf]_vars

NextRender ==
    \/ \E n \in RosterSizes, name_len \in NameLens, map_len \in MapLens :
          render_turn_view_returns(n, name_len, map_len)
    \/ \E k \in 0..PageSize, event_len \in EventLens : render_events_view_returns(k, event_len)

SpecRender == Init /\ [][NextRender]_vars

\* Late reactions: at second 0 user 1 starts a session, advances it to turn
\* 1 and opens a browser (message 1; adding its glyphs may fail, which leaves
\* it without a supervisor); user 2 reacts with any glyph at second 0, at the
\* window's last second and one second after it, whatever becomes of the
\* handler's clear-reactions request; supervisors run when they can.
NextLate ==
    \/ Idle /\ now = 0 /\ cmd_start("c1", 1, [id |-> "a0", fn |-> "f0"])
    \/ Idle /\ now = 0 /\ (\A g \in games : g.turn_number = 0) /\ nav = {}
            /\ cmd_mup("c1", 1, NoImage, 0, TRUE)
    \/ Idle /\ now = 0 /\ \E reacted \in BOOLEAN : cmd_game("c1", 1, reacted)
    \/ \E emoji_id \in Emojis, cl \in {"ok", "fail", "raise"} :
          handle_nav_react(1, "c1", 2, emoji_id, cl)
    \/ \E edited \in {"ok", "fail"} : handle_nav_react_edited(edited)
    \/ \E id \in TaskIds : worker_loop(id, "ok")
    \/ \E id \in TaskIds : worker_cleared(id)
    \/ \E id \in TaskIds : worker_cancelled(id)
    \/ \E d \in {NavWindow, NavWindow + 1} : TickBy(d, MaxClock)

SpecLate == Init /\ [][NextLate]_vars

\* Diplomacy under an owner: user 1 starts the session and ends it, joins
\* and force-adds user 2; user 2 joins and quits; both send r.ally
\* and r.nap to each other and to themselves, and break what they have.
PactUsers == {1, 2}

NextPact ==
    \/ cmd_start("c1", 1, [id |-> "a0", fn |-> "f0"])
    \/ cmd_reset("c1", 1)
    \/ \E u \in PactUsers : ~player_in_game("c1", u) /\ cmd_join("c1", u, "")
    \/ ~player_in_game("c1", 2) /\ cmd_add("c1", 1, 2, "")
    \/ cmd_quit("c1", 2)
    \/ \E u \in PactUsers, target \in PactUsers : cmd_ally("c1", u, target)
    \/ \E u \in PactUsers, target \in PactUsers : cmd_nap("c1", u, target)
    \/ \E u \in PactUsers : cmd_betray("c1", u, 3 - u)
    \/ \E u \in PactUsers : cmd_break("c1", u, 3 - u)

SpecPact == Init /\ [][NextPact]_vars

\* ---- what the claims speak of -----------------------------------------------------
Lesser(a, b) == IF a <= b THEN a ELSE b

Greater(a, b) == IF a <= b THEN b ELSE a

\* The rows of a relation table for the unordered pair {a, b} of a channel.
PairRows(tbl, c, a, b) ==
    {r \in tbl : r.channel_id = c /\ {r.user_a, r.user_b} = {a, b}}

\* cmd_ally, cmd_betray, cmd_nap and cmd_break reach their store call.
CanCall(c, u, t) ==
    /\ \E g \in games : g.channel_id = c
    /\ u # t
    /\ \E i \in 1..Len(players[c]) : players[c][i].user_id = u
    /\ \E i \in 1..Len(players[c]) : players[c][i].user_id = t

\* proposeOrAccept(c, u, t) on table `tbl`, leaving `tbl2` and answering `kind`.
ProposeOrAcceptPost(tbl, tbl2, kind, c, u, t) ==
    LET ex == PairRows(tbl, c, u, t)
    IN  /\ ex = {} =>
              /\ kind = "proposed"
              /\ tbl2 = tbl \cup {RelRow(c, Lesser(u, t), Greater(u, t), "pending", u, now, now)}
        /\ \A r \in ex :
              /\ (r.status = "pending" /\ r.proposed_by = u) =>
                    (kind = "already_pending" /\ tbl2 = tbl)
              /\ (r.status = "pending" /\ r.proposed_by = t) =>
                    /\ kind = "accepted"
                    /\ tbl2 = (tbl \ {r}) \cup
                              {[r EXCEPT !.status = "accepted", !.updated_at = now]}
              /\ r.status = "accepted" =>
                    (kind = "already_accepted" /\ tbl2 = tbl)

\* C2: proposeOrAccept, for either relation kind and any pair: no row ->
\* a pending row recording the proposer, "proposed"; pending by the caller ->
\* "already_pending", nothing changed; pending by the other party -> status
\* accepted, "accepted"; accepted -> "already_accepted", nothing changed.
C2_ProposeOrAccept ==
    [][\A c \in Channels, u \in Users, t \in Users :
          /\ (CanCall(c, u, t) /\ cmd_ally(c, u, t)) =>
                ProposeOrAcceptPost(alliances, alliances', reply'.kind, c, u, t)
          /\ (CanCall(c, u, t) /\ cmd_nap(c, u, t)) =>
                ProposeOrAcceptPost(naps, naps', reply'.kind, c, u, t)]_vars

\* A NAP was accepted a second after it was proposed, while an alliance is pending.
C2_Witness ==
    /\ reply.kind = "accepted"
    /\ \E r \in naps : r.status = "accepted" /\ r.updated_at > r.created_at
    /\ \E r \in alliances : r.status = "pending"

\* The two orders in which a pair can go from no row to accepted.
AllianceVia(c, a, b) ==
    LET first == alliance_propose_or_accept(alliances, c, a, b)
        second == alliance_propose_or_accept(first.tbl, c, b, a)
    IN  [rets |-> <<first.ret, second.ret>>, tbl |-> second.tbl]

NapVia(c, a, b) ==
    LET first == nap_propose_or_accept(naps, c, a, b)
        second == nap_propose_or_accept(first.tbl, c, b, a)
    IN  [rets |-> <<first.ret, second.ret>>, tbl |-> second.tbl]

\* C3 as amended: from no row, proposeOrAccept(A,B) then proposeOrAccept(B,A)
\* yields proposed then accepted whoever initiates; the resulting row has the
\* same key (smaller id first), status and timestamps either way, and its
\* proposed_by is the user who made the first call.
C3_AcceptedPath ==
    \A c \in Channels, a \in Users, b \in Users :
        CanCall(c, a, b) =>
            /\ PairRows(alliances, c, a, b) = {} =>
                  /\ AllianceVia(c, a, b).rets = <<"proposed", "accepted">>
                  /\ AllianceVia(c, a, b).tbl = alliances \cup
                        {RelRow(c, Lesser(a, b), Greater(a, b), "accepted", a, now, now)}
            /\ PairRows(naps, c, a, b) = {} =>
                  /\ NapVia(c, a, b).rets = <<"proposed", "accepted">>
                  /\ NapVia(c, a, b).tbl = naps \cup
                        {RelRow(c, Lesser(a, b), Greater(a, b), "accepted", a, now, now)}

\* C3 as stated: the resulting stored row is identical whoever initiated.
C3_SameRowWhoeverInitiates ==
    \A c \in Channels, a \in Users, b \in Users :
        (CanCall(c, a, b) /\ PairRows(alliances, c, a, b) = {}) =>
            AllianceVia(c, a, b).tbl = AllianceVia(c, b, a).tbl

\* The later-sorting user initiated an alliance that was then accepted, and the
\* earlier-sorting user initiated a NAP: both are stored under the same key.
C3_Witness ==
    \E r \in alliances, n \in naps :
        /\ r.status = "accepted" /\ r.proposed_by = r.user_b
        /\ n.proposed_by = n.user_a
        /\ <<n.channel_id, n.user_a, n.user_b>> = <<r.channel_id, r.user_a, r.user_b>>

\* C4: while a relation is pending, every repeated proposeOrAccept by the
\* original proposer returns already_pending and leaves the whole store, the
\* row's status, proposer and timestamps included, as it was (so the next
\* repetition finds the same state, and no second row appears).
C4_Idempotent ==
    [][\A c \in Channels, u \in Users, t \in Users :
          /\ (/\ CanCall(c, u, t)
              /\ \E r \in PairRows(alliances, c, u, t) :
                    r.status = "pending" /\ r.proposed_by = u
              /\ cmd_ally(c, u, t)) =>
                (reply'.kind = "already_pending" /\ UNCHANGED store)
          /\ (/\ CanCall(c, u, t)
              /\ \E r \in PairRows(naps, c, u, t) :
                    r.status = "pending" /\ r.proposed_by = u
              /\ cmd_nap(c, u, t)) =>
                (reply'.kind = "already_pending" /\ UNCHANGED store)]_vars

\* The proposer proposed again a second later; the row still carries its first timestamps.
C4_Witness ==
    /\ reply.kind = "already_pending"
    /\ \E r \in alliances \cup naps :
          r.status = "pending" /\ r.created_at < now /\ r.updated_at = r.created_at

BreakPost(tbl, tbl2, kind, c, u, t) ==
    LET ex == PairRows(tbl, c, u, t)
    IN  /\ ex = {} => kind = "missing"
        /\ \A r \in ex : /\ r.status = "accepted" => kind = "broken"
                         /\ r.status = "pending" => kind = "cancelled_pending"
        /\ tbl2 = tbl \ ex
        /\ PairRows(tbl2, c, u, t) = {}

\* C5: break, for either kind and either argument order: broken / cancelled_pending /
\* missing by what the row was; no row for the pair afterwards, and a
\* subsequent proposeOrAccept (by either user) returns proposed.
C5_Break ==
    [][\A c \in Channels, u \in Users, t \in Users :
          /\ (CanCall(c, u, t) /\ cmd_betray(c, u, t)) =>
                /\ BreakPost(alliances, alliances', reply'.kind, c, u, t)
                /\ alliance_propose_or_accept(alliances', c, u, t).ret = "proposed"
                /\ alliance_propose_or_accept(alliances', c, t, u).ret = "proposed"
          /\ (CanCall(c, u, t) /\ cmd_break(c, u, t)) =>
                /\ BreakPost(naps, naps', reply'.kind, c, u, t)
                /\ nap_propose_or_accept(naps', c, u, t).ret = "proposed"
                /\ nap_propose_or_accept(naps', c, t, u).ret = "proposed"]_vars

\* An accepted alliance was just broken: the pair has no alliance row any more.
C5_Witness ==
    /\ reply.kind = "broken"
    /\ alliances = {}
    /\ \E c \in Channels : /\ events[c] # <<>>
                           /\ events[c][Len(events[c])].event_type = "alliance_broken"

\* C6: a propose, accept or break on one kind leaves every row of the other
\* kind as it was, and only the commands of a kind change its table.
C6_KindsIndependent ==
    [][/\ naps' # naps =>
             \A c \in Channels, u \in Users, t \in Users :
                 ~cmd_ally(c, u, t) /\ ~cmd_betray(c, u, t)
       /\ alliances' # alliances =>
             \A c \in Channels, u \in Users, t \in Users :
                 ~cmd_nap(c, u, t) /\ ~cmd_break(c, u, t)
       /\ (naps' # naps /\ games' = games) =>
             \E c \in Channels, u \in Users, t \in Users :
                 cmd_nap(c, u, t) \/ cmd_break(c, u, t)
       /\ (alliances' # alliances /\ games' = games) =>
             \E c \in Channels, u \in Users, t \in Users :
                 cmd_ally(c, u, t) \/ cmd_betray(c, u, t)]_vars

\* A pending alliance was just cancelled while the pair's NAP row stays.
C6_Witness ==
    /\ reply.kind = "cancelled_pending"
    /\ alliances = {}
    /\ naps # {}
    /\ \E c \in Channels : /\ events[c] # <<>>
                           /\ events[c][Len(events[c])].event_type = "alliance_cancelled"

\* C7: each relation table holds at most one row per unordered pair and
\* channel, stored smaller id first; get, proposeOrAccept and break called
\* with (A,B) and with (B,A) find and change that one row.
C7_CanonicalRow ==
    /\ \A tbl \in {alliances, naps} :
          /\ \A r \in tbl : r.user_a < r.user_b
          /\ \A r1 \in tbl, r2 \in tbl :
                (r1.channel_id = r2.channel_id
                   /\ {r1.user_a, r1.user_b} = {r2.user_a, r2.user_b}) => r1 = r2
    /\ \A c \in Channels, a \in Users, b \in Users :
          /\ alliance_get(alliances, c, a, b) = PairRows(alliances, c, a, b)
          /\ alliance_get(alliances, c, b, a) = PairRows(alliances, c, a, b)
          /\ nap_get(naps, c, a, b) = PairRows(naps, c, a, b)
          /\ nap_get(naps, c, b, a) = PairRows(naps, c, a, b)
          /\ alliance_break(alliances, c, a, b) = alliance_break(alliances, c, b, a)
          /\ nap_break(naps, c, a, b) = nap_break(naps, c, b, a)
          /\ alliance_break(alliances, c, a, b).tbl = alliances \ PairRows(alliances, c, a, b)
          /\ nap_break(naps, c, a, b).tbl = naps \ PairRows(naps, c, a, b)
          /\ alliance_propose_or_accept(alliances, c, a, b).tbl \ alliances
                \subseteq PairRows(alliance_propose_or_accept(alliances, c, a, b).tbl, c, b, a)
          /\ alliances \ alliance_propose_or_accept(alliances, c, a, b).tbl
                \subseteq PairRows(alliances, c, b, a)
          /\ nap_propose_or_accept(naps, c, a, b).tbl \ naps
                \subseteq PairRows(nap_propose_or_accept(naps, c, a, b).tbl, c, b, a)
          /\ naps \ nap_propose_or_accept(naps, c, a, b).tbl
                \subseteq PairRows(naps, c, b, a)
          /\ Cardinality(PairRows(alliance_propose_or_accept(alliances, c, a, b).tbl, c, a, b)) = 1
          /\ Cardinality(PairRows(nap_propose_or_accept(naps, c, a, b).tbl, c, a, b)) = 1

\* The user with the larger id proposed: the row is stored under (smaller, larger)
\* and the smaller one accepted it.
C7_Witness ==
    \E r \in alliances : /\ r.user_a < r.user_b
                         /\ r.proposed_by = r.user_b
                         /\ r.status = "accepted"

\* ---- sessions and turn history ------------------------------------------------------
SessionRows(c) == {g \in games : g.channel_id = c}

TurnOf(c) == (CHOOSE g \in games : g.channel_id = c).turn_number

\* C1: at most one session record per channel in every reachable state; a
\* start on a channel that has a session is rejected and leaves the session
\* (owner, turn counter, map), the roster, the roster snapshots, the map
\* references and the event log as they were.
C1_OneSessionPerChannel ==
    /\ [](\A c \in Channels : Cardinality(SessionRows(c)) <= 1)
    /\ [][\A c \in Channels, u \in Users, att \in Attachments :
              (SessionRows(c) # {} /\ cmd_start(c, u, att)) =>
                  /\ reply'.kind = "already_active"
                  /\ UNCHANGED <<games, players, turnplayers, turnmaps, events>>]_vars

\* A start was just rejected on a channel whose session has members and is past turn 0.
C1_Witness ==
    /\ reply.kind = "already_active"
    /\ \E g \in games : g.turn_number > 0 /\ players[g.channel_id] # <<>>

\* A successful advance of c: cmd_mup issued by the owner of c's session.
Advances(c, att) ==
    \E g \in SessionRows(c) : \E sent_id \in SendResults :
        cmd_mup(c, g.op_user_id, att, sent_id, TRUE)

\* C8: the counter of a new session is 0; a successful advance raises it by
\* exactly 1 and answers the new value; a step that keeps the session changes
\* the counter only if it is such an advance.
C8_TurnCounter ==
    [][\A c \in Channels :
          /\ (SessionRows(c) = {} /\ SessionRows(c)' # {}) =>
                \A g \in SessionRows(c)' : g.turn_number = 0
          /\ (SessionRows(c) # {} /\ SessionRows(c)' # {}) =>
                /\ TurnOf(c)' \in {TurnOf(c), TurnOf(c) + 1}
                /\ TurnOf(c)' # TurnOf(c) => \E att \in Attachments : Advances(c, att)
                /\ \A att \in Attachments :
                      Advances(c, att) =>
                          /\ TurnOf(c)' = TurnOf(c) + 1
                          /\ reply' = ReplyTurn("turn_live", TurnOf(c) + 1)]_vars

\* The second advance of a session was just answered with turn 2.
C8_Witness ==
    /\ reply = ReplyTurn("turn_live", 2)
    /\ \E g \in games : g.turn_number = 2

MapRows(tbl, c) == {m \in tbl : m.channel_id = c}

\* C9: an advance to turn T without an image records for T the asset id and
\* filename of the latest prior turn's map reference; an advance with an image
\* records that image for T; either way the map references of all earlier
\* turns stay as they were.
C9_MapCarryForward ==
    [][\A c \in Channels, att \in Attachments :
          Advances(c, att) =>
              LET T == TurnOf(c) + 1
                  recorded == {m \in MapRows(turnmaps', c) : m.turn_number = T}
                  prior == {m \in MapRows(turnmaps, c) :
                               \A o \in MapRows(turnmaps, c) : o.turn_number <= m.turn_number}
              IN  /\ Cardinality(recorded) = 1
                  /\ \A m \in MapRows(turnmaps, c) : m.turn_number < T
                  /\ turnmaps' \ recorded = turnmaps
                  /\ \A m \in recorded :
                        IF att = NoImage
                        THEN \A p \in prior :
                                 /\ m.map_attachment_id = p.map_attachment_id
                                 /\ m.map_filename = p.map_filename
                        ELSE /\ m.map_attachment_id = att.id
                             /\ m.map_filename = att.fn]_vars

\* Turn 1 got a new image, turn 2 was advanced without one and carries turn 1's
\* image, and turn 0 still has the image of the start.
C9_Witness ==
    /\ reply = ReplyTurn("turn_live", 2)
    /\ \E m0 \in turnmaps, m1 \in turnmaps, m2 \in turnmaps :
          /\ m0.turn_number = 0 /\ m1.turn_number = 1 /\ m2.turn_number = 2
          /\ m0.map_attachment_id = "a0"
          /\ m1.map_attachment_id = "a1"
          /\ m2.map_attachment_id = "a1"
    /\ \E g \in games : g.map_attachment_id = "a1"

\* A step of join, quit or force-add that changes the live roster of c.
RosterChanges(c) ==
    /\ SessionRows(c) # {}
    /\ games' = games
    /\ players'[c] # players[c]

Browser(m) == CHOOSE n \in nav : n.message_id = m

Tracked(m) == \E n \in nav : n.message_id = m

TrackedIn(tbl, m) == \E n \in tbl : n.message_id = m

\* The last page of a turn's events, PageSize to the page (page 0 when the
\* turn has none).
LastPage(c, t) ==
    LET n == Cardinality({i \in 1..Len(events[c]) : events[c][i].turn_number = t})
    IN  IF n = 0 THEN 0 ELSE (n - 1) \div PageSize

\* Where the glyph leads from (turn t, page p) when the current turn is cur.
Leads(view, glyph, t, p, cur, last) ==
    IF glyph = "fwd"
    THEN <<IF t >= cur THEN 0 ELSE t + 1, IF view = "events" THEN 0 ELSE p>>
    ELSE IF glyph = "back"
    THEN <<IF t <= 0 THEN cur ELSE t - 1, IF view = "events" THEN 0 ELSE p>>
    ELSE IF glyph = "page" /\ view = "events"
    THEN <<t, IF p = last THEN 0 ELSE p + 1>>
    ELSE <<t, p>>

Shown(row) == <<row.displayed_turn, row.displayed_page>>

\* C11: a reaction on a live browser showing (t, p) leads where the transition
\* function says: forward to turn 0 from the current turn and to t+1 otherwise,
\* back to the current turn from turn 0 and to t-1 otherwise, both to page 0 on
\* an events browser; next-page on an events browser to page 0 from the last
\* page and to p+1 otherwise; next-page on a game browser and any other glyph
\* change nothing.  A target other than (t, p) is what the edit asks for and
\* what the record shows once the edit went through; the record shows (t, p)
\* until then.
C11_NavTransition ==
    [][/\ \A glyph \in Emojis :
            (Tracked(1) /\ HasGame("c1") /\ handle_nav_react(1, "c1", 1, glyph, "ok")) =>
                LET row == Browser(1)
                    to == Leads(row.view_type, glyph, row.displayed_turn, row.displayed_page,
                                TurnOf("c1"), LastPage("c1", row.displayed_turn))
                IN  /\ Tracked(1)' /\ Shown(Browser(1)') = Shown(row)
                    /\ IF to = Shown(row)
                       THEN inflight' = {}
                       ELSE inflight' = {[message_id |-> 1, channel_id |-> "c1",
                                          turn |-> to[1], page |-> to[2]]}
                    /\ (glyph = "other" \/ (glyph = "page" /\ row.view_type = "game"))
                          => nav' = nav /\ inflight' = {}
       /\ handle_nav_react_edited("ok") =>
             \A r \in inflight : Tracked(r.message_id) =>
                 Shown(Browser(r.message_id)') = <<r.turn, r.page>>
      ]_vars

\* An events browser has been turned to page 1 of turn 0 while a later turn is
\* the current one.
C11_Witness ==
    /\ \E n \in nav : n.view_type = "events" /\ n.displayed_turn = 0 /\ n.displayed_page = 1
    /\ reply.kind = "react_edited"
    /\ TurnOf("c1") >= 1

\* ---- browsers and their supervisors ----------------------------------------------
\* Message m's browser is within its inactivity window.
Fresh(m) == Tracked(m) /\ now - Browser(m).updated_at <= NavWindow

\* A reaction on message 1 with the forward glyph that leads to the (turn,
\* page) the browser shows.
SameForward(cl) ==
    /\ Fresh(1) /\ HasGame("c1")
    /\ Leads(Browser(1).view_type, "fwd", Browser(1).displayed_turn,
             Browser(1).displayed_page, TurnOf("c1"),
             LastPage("c1", Browser(1).displayed_turn)) = Shown(Browser(1))
    /\ handle_nav_react(1, "c1", 2, "fwd", cl)

\* The tasks of message m that have not been cancelled.
LiveTasks(tbl, m) == {t \in tbl : t.message_id = m /\ ~t.cancelled}

\* C12: a recognized reaction that leads to the (turn, page) the browser
\* already shows causes no edit and leaves (turn, page) as they are, but it
\* does count as activity: the last-activity timestamp becomes the time of the
\* reaction and the supervisor is cancelled and replaced by a new one.
C12_NoChangeStillTouches ==
    [][\A cl \in {"ok", "fail"} : SameForward(cl) =>
          /\ inflight' = {}
          /\ Tracked(1)' /\ Shown(Browser(1)') = Shown(Browser(1))
          /\ Browser(1)'.updated_at = now
          /\ \A t \in LiveTasks(tasks, 1) : t \notin tasks'
          /\ \E t \in LiveTasks(tasks', 1) :
                /\ t.pc = "start" /\ t \notin tasks
                /\ LiveTasks(tasks', 1) = {t}
                /\ nav_cleanup_tasks' = {[message_id |-> 1, task |-> t.id]}
      ]_vars

\* C12 as stated: such a reaction leaves the timestamp and the supervisor alone.
C12_NoChangeNoOp ==
    [][\A cl \in {"ok", "fail"} : SameForward(cl) =>
          /\ inflight' = {}
          /\ nav' = nav
          /\ tasks' = tasks /\ nav_cleanup_tasks' = nav_cleanup_tasks
      ]_vars

\* Forward on a browser showing the current turn, seconds after it was last
\* touched: the time of the reaction is its new timestamp and the supervisor
\* it had is cancelled.
C12_Witness ==
    /\ reply.kind = "react_same"
    /\ now >= 2
    /\ Tracked(1) /\ Browser(1).updated_at = now
    /\ \E t \in tasks : t.cancelled
    /\ \E t \in tasks : ~t.cancelled /\ t.pc = "start"

\* Message m's browser has a supervisor.
Watched(m) == Tracked(m) /\ LiveTasks(tasks, m) # {}

\* A reaction on a message without a record changes nothing.
UntrackedIgnored ==
    \A cl \in {"ok", "fail"} :
        (~Tracked(1) /\ handle_nav_react(1, "c1", 2, "fwd", cl)) =>
            /\ reply'.kind = "react_untracked"
            /\ UNCHANGED <<store, nav_cleanup_tasks, tasks, nextMsg, now, aux>>

\* C13: a browser that has a supervisor is eventually without its record or
\* without its supervisor.  The supervisor that comes back from its
\* clear-reactions request exits; it has deleted the record unless the request
\* raised, and the reactions are gone if the request succeeded.  A reaction on
\* a message without a record is treated as untracked: nothing is edited,
\* written or scheduled, and no error comes of it.
C13_Expires ==
    /\ Watched(1) ~> (~Tracked(1) \/ LiveTasks(tasks, 1) = {})
    /\ [][/\ \A id \in TaskIds : worker_cleared(id) =>
                /\ \A t \in tasks' : t.id # id
                /\ Task(id).result # "raise" => ~TrackedIn(nav', Task(id).message_id)
                /\ Task(id).result = "raise" => nav' = nav
                /\ Task(id).result = "ok" => Task(id).message_id \in cleared'
          /\ UntrackedIgnored
         ]_vars

\* C13 as stated: a browser that has a supervisor eventually has its
\* reactions cleared and its record deleted, the supervisor gone.
C13_ExpiresCleared ==
    /\ Watched(1) ~> (~Tracked(1) /\ 1 \in cleared /\ LiveTasks(tasks, 1) = {})
    /\ [][UntrackedIgnored]_vars

\* Past the window the browser's reactions are cleared, its record gone and
\* no supervisor left while the session goes on, and a reaction on the
\* message was just treated as untracked.
C13_Witness ==
    /\ now > NavWindow
    /\ HasGame("c1")
    /\ ~Tracked(1) /\ 1 \in cleared /\ tasks = {}
    /\ reply.kind = "react_untracked"

\* The supervisor `id` sends its clear-reactions request in this step.
SendsClear(id) ==
    /\ \E cl \in {"ok", "fail", "raise"} : worker_loop(id, cl)
    /\ \E t \in tasks' : t.id = id /\ t.pc = "clearing"

\* The supervisor `id` deletes its browser's record in this step.
Deletes(id) == worker_cleared(id) /\ nav' # nav

\* C14: a reaction taken for activity at time t cancels the supervisor the
\* browser had; a supervisor sends its clear-reactions request only for a
\* record whose timestamp is a window old or older, and no sooner than a
\* window after t; a supervisor deletes the record, and the reaction handler
\* drops it as expired, no sooner than a window after t.
C14_Extends ==
    [][/\ \A cl \in {"ok", "fail"} :
             (Fresh(1) /\ HasGame("c1") /\ handle_nav_react(1, "c1", 2, "fwd", cl)) =>
                 /\ touched'[1] = now
                 /\ TrackedIn(nav', 1)
                 /\ \A t \in LiveTasks(tasks', 1) : t.pc = "start"
       /\ \A id \in TaskIds : SendsClear(id) =>
             /\ Tracked(Task(id).message_id)
             /\ now - Browser(Task(id).message_id).updated_at >= NavWindow
             /\ now - touched[Task(id).message_id] >= NavWindow
       /\ \A id \in TaskIds : Deletes(id) =>
             now - touched[Task(id).message_id] >= NavWindow
       /\ \A cl \in {"ok", "fail"} :
             (Tracked(1) /\ handle_nav_react(1, "c1", 2, "fwd", cl) /\ ~TrackedIn(nav', 1)) =>
                 now - touched[1] > NavWindow
      ]_vars

\* C14 as stated: no supervisor clears or deletes while the time since the
\* record's timestamp is below the window.
C14_NeverBelowWindow ==
    [][\A id \in TaskIds : (SendsClear(id) \/ Deletes(id)) =>
          /\ Tracked(Task(id).message_id)
          /\ now - Browser(Task(id).message_id).updated_at >= NavWindow
      ]_vars

\* A reaction in second 1 turned the browser to another turn, and the record
\* is there, watched by a sleeping supervisor, a window after its creation.
C14_Witness ==
    /\ now >= NavWindow
    /\ Tracked(1) /\ touched[1] = 1
    /\ Browser(1).displayed_turn # TurnOf("c1")
    /\ \E t \in LiveTasks(tasks, 1) : t.pc = "sleeping" /\ t.wake > now

\* C15: a message id never has two supervisors that are not cancelled, and
\* the one it has is the one the supervisor map names.  A step of a cancelled
\* supervisor writes nothing to the store, clears no reactions and leaves the
\* map alone.  A supervisor that finishes takes from the map at most the
\* entry that names it.
C15_OneSupervisor ==
    /\ [](\A m \in MsgIds :
             /\ Cardinality(LiveTasks(tasks, m)) <= 1
             /\ \A t \in LiveTasks(tasks, m) :
                   [message_id |-> m, task |-> t.id] \in nav_cleanup_tasks)
    /\ [][\A t \in tasks : t \notin tasks' =>
             /\ nav_cleanup_tasks \ nav_cleanup_tasks' \subseteq
                   {[message_id |-> t.message_id, task |-> t.id]}
             /\ t.cancelled =>
                   /\ \A u \in tasks' : u.id # t.id
                   /\ UNCHANGED <<store, cleared, nav_cleanup_tasks>>
         ]_vars

\* A reaction replaced the supervisor of message 1: the one it had is
\* cancelled, the map names the new one, which has gone to sleep.
C15_Witness ==
    /\ \E t \in tasks : t.message_id = 1 /\ t.cancelled
    /\ \E t \in LiveTasks(tasks, 1) :
          /\ t.pc = "sleeping"
          /\ nav_cleanup_tasks = {[message_id |-> 1, task |-> t.id]}

\* C16: ending a session takes its browsers' records and leaves their
\* supervisors as they are; a supervisor that wakes (or starts) to find its
\* record gone exits, taking its own map entry with it, without a
\* clear-reactions request and without a write to the store; a reaction on a
\* message whose record is gone is ignored.
C16_DeletionTolerated ==
    [][/\ (HasGame("c1") /\ cmd_reset("c1", 1)) =>
             /\ \A n \in nav' : n.channel_id # "c1"
             /\ UNCHANGED <<tasks, nav_cleanup_tasks, cleared>>
       /\ \A id \in TaskIds, cl \in {"ok", "fail", "raise"} :
             ((\E t \in tasks : t.id = id /\ ~Tracked(t.message_id)) /\ worker_loop(id, cl)) =>
                 /\ \A t \in tasks' : t.id # id
                 /\ \A e \in nav_cleanup_tasks' : e.task # id
                 /\ UNCHANGED <<store, cleared, ws>>
       /\ \A cl \in {"ok", "fail"} :
             (~Tracked(1) /\ handle_nav_react(1, "c1", 2, "fwd", cl)) =>
                 UNCHANGED <<store, nav_cleanup_tasks, tasks, cleared, inflight, ws>>
      ]_vars

\* The session was just ended while the supervisor of its browser sleeps.
C16_Witness ==
    /\ reply.kind = "ended"
    /\ ~HasGame("c1") /\ ~Tracked(1)
    /\ \E t \in LiveTasks(tasks, 1) : t.pc = "sleeping" /\ t.wake > now

\* ---- ownership --------------------------------------------------------------------
\* No table holds a row keyed by channel c: tables given as they are in a state.
NoRows(c, pl, ro, ev, al, na, tm, tp, nv) ==
    /\ pl[c] = <<>> /\ ro[c] = <<>> /\ ev[c] = <<>>
    /\ \A r \in al \cup na : r.channel_id # c
    /\ \A m \in tm : m.channel_id # c
    /\ \A t \in DOMAIN tp[c] : tp[c][t] = <<>>
    /\ \A n \in nv : n.channel_id # c

\* C17: in every state a channel without a session has no member, roster
\* snapshot, map reference, roll, event, alliance, pact or browser row; ending
\* a session leaves none of its channel and takes nothing else.
C17_NothingOutlivesSession ==
    /\ [](\A c \in Channels : ~HasGame(c) =>
             NoRows(c, players, rolls, events, alliances, naps, turnmaps, turnplayers, nav))
    /\ [][\A u \in OwnUsers : (HasGame("c1") /\ is_op(GameRow("c1"), u) /\ cmd_reset("c1", u)) =>
             /\ games' = {}
             /\ NoRows("c1", players', rolls', events', alliances', naps', turnmaps',
                       turnplayers', nav')
         ]_vars

\* A session that had a browser was just ended, and a supervisor of the
\* browser is still there.
C17_Witness ==
    /\ reply.kind = "ended"
    /\ ~HasGame("c1")
    /\ tasks # {} /\ nextMsg > 1

\* ---- the transport loop -------------------------------------------------------------
\* C18: the backoff starts at 1 s and is always one of 1, 2, 4, 8, 16, 30 s;
\* the sleep after a disconnect lasts the backoff plus a jitter of 0 to 0.5 s
\* (sleep_for is in tenths of a second); when the sleep is over the backoff
\* becomes min(2 * backoff, 30); a successful connect-and-authenticate sets it
\* to 1; a failed one leaves it.
C18_Backoff ==
    /\ backoff = 1
    /\ [](backoff \in {1, 2, 4, 8, 16, 30})
    /\ [][/\ (\E jitter \in Jitters : ws_sleep(jitter)) =>
                /\ sleep_for' >= 10 * backoff /\ sleep_for' <= 10 * backoff + 5
                /\ backoff' = backoff
          /\ ws_wake => backoff' = (IF 2 * backoff < 30 THEN 2 * backoff ELSE 30)
          /\ ws_connect(TRUE) => backoff' = 1
          /\ ws_connect(FALSE) => backoff' = backoff
         ]_vars

\* The loop sleeps for 30.5 s with the backoff at its cap, after a sleep of
\* 16 s and more.
C18_Witness ==
    /\ ws = "sleeping"
    /\ backoff = 30
    /\ sleep_for = 305

\* A step that ends in the except clause of run_forever: the connection or
\* the Authenticate frame failed, ws.recv() raised, or a reaction's request
\* raised out of handle_event.
Fails ==
    \/ ws_connect(FALSE)
    \/ ws_recv_failed
    \/ handle_nav_react_edited("raise")
    \/ \E cl \in {"ok", "fail", "raise"} :
          handle_nav_react(1, "c1", 2, "fwd", cl) /\ reply'.kind = "exception"

\* C19: the loop is always connecting, streaming, in its except clause or
\* asleep; every failure takes it to the except clause, from where it goes to
\* sleep and from sleep to the next connection attempt, which comes to an end
\* one way or the other.
C19_AlwaysRetries ==
    /\ [](ws \in {"connecting", "streaming", "failed", "sleeping"})
    /\ [][Fails => ws' = "failed"]_vars
    /\ (ws = "failed") ~> (ws = "sleeping")
    /\ (ws = "sleeping") ~> (ws = "connecting")
    /\ (ws = "connecting") ~> (ws = "streaming" \/ ws = "failed")

\* After a failed edit raised out of a reaction's dispatch the loop is at its
\* next connection attempt, the backoff doubled.
C19_Witness ==
    /\ ws = "connecting"
    /\ reply.kind = "exception"
    /\ backoff = 2
    /\ Tracked(1)

\* C20: when the reply of a command handler raises, the loop stays in its
\* receive loop, no reply goes out, and the next frame can be dispatched;
\* what the handler wrote before the exception stays written.
C20_HandlerExceptionCaught ==
    [][(DispatchReady /\ HasGame("c1") /\ cmd_say("c1", 1, 1, "raise")) =>
          /\ ws' = "streaming"
          /\ reply'.kind = "exception"
          /\ DispatchReady'
          /\ UNCHANGED <<backoff, sleep_for>>
          /\ events'["c1"] = Append(events["c1"],
                [turn_number |-> TurnOf("c1"), user_id |-> 1, event_type |-> "note"])
      ]_vars

\* The reply to the note just raised, and the connection streams.
C20_Witness ==
    /\ reply.kind = "exception"
    /\ ws = "streaming" /\ inflight = {}
    /\ \E i \in 1..Len(events["c1"]) : events["c1"][i].event_type = "note"
    /\ nav = {}

\* A dispatch that fails outside the command handlers: the frame's dispatch
\* raises before a handler is reached, or a request of the reaction handler
\* raises.
DispatchRaises ==
    \/ handle_event_raises
    \/ handle_nav_react_edited("raise")

\* A dispatch that fails inside a command handler: the reply to a note raises.
CommandRaises == \E outcome \in {"raise"} : HasGame("c1") /\ cmd_say("c1", 1, 1, outcome)

\* C21 as stated: a failure while dispatching any inbound event, of a command
\* or not, never disconnects the transport: the loop keeps streaming.
C21_DispatchFailureNeverDisconnects ==
    [][(DispatchReady \/ inflight # {}) /\ (DispatchRaises \/ CommandRaises)
          => ws' = "streaming"]_vars

\* C21: a failure inside a command handler is caught and the loop keeps
\* streaming on the same connection; a failure of any other dispatch (a frame
\* of unexpected shape, a request of the reaction handler) is re-raised to
\* the except clause of the loop, the heartbeat task is cancelled and the
\* loop sleeps and reconnects; the store is not written by the failure.
C21_DispatchFailure ==
    /\ [][(DispatchReady /\ CommandRaises) =>
             /\ ws' = "streaming"
             /\ UNCHANGED <<backoff, sleep_for, pings>>]_vars
    /\ [][(ws = "streaming" /\ DispatchRaises) =>
             /\ ws' = "failed"
             /\ reply'.kind = "exception"
             /\ UNCHANGED store]_vars
    /\ [][(ws = "failed" /\ ws' # ws) => (ws' = "sleeping" /\ pings' = <<>>)]_vars
    /\ [][(ws = "sleeping" /\ ws' # ws) => ws' = "connecting"]_vars

\* The edit of a reaction raised: the loop is asleep before its reconnect,
\* the browser still at the turn it showed, its heartbeat task cancelled.
C21_Witness ==
    /\ ws = "sleeping"
    /\ reply.kind = "exception"
    /\ Tracked(1) /\ Browser(1).displayed_turn = 0 /\ TurnOf("c1") = 1
    /\ pings = <<>>
    /\ inflight = {}

\* The note of user u at the current turn of channel c.
NoteOf(c, u) == [turn_number |-> TurnOf(c), user_id |-> u, event_type |-> "note"]

\* C22: while the handler of a frame awaits its request no other frame is
\* read or dispatched (the only steps are the return of that request and
\* steps of the supervisors), and the notes of a Bulk frame are written in
\* their listed order, all of them before the next frame is read.
C22_OneAtATime ==
    /\ [][inflight # {} =>
             \/ \E edited \in {"ok", "fail", "raise"} : handle_nav_react_edited(edited)
             \/ UNCHANGED <<games, players, rolls, events, alliances, naps, turnmaps,
                            turnplayers, nav, inflight, ws, nextMsg, reply>>]_vars
    /\ [][\A us \in {<<1, 2>>, <<2, 1>>} :
             (HasGame("c1") /\ player_in_game("c1", 2) /\ handle_event_bulk("c1", us)) =>
                /\ events'["c1"] = events["c1"] \o <<NoteOf("c1", us[1]), NoteOf("c1", us[2])>>
                /\ DispatchReady']_vars

\* A Bulk frame listed the note of user 2 before the note of user 1, and a
\* later reaction awaits its edit.
C22_Witness ==
    /\ \E i \in 1..(Len(events["c1"]) - 1) :
          /\ events["c1"][i] = [turn_number |-> 0, user_id |-> 2, event_type |-> "note"]
          /\ events["c1"][i + 1] = [turn_number |-> 0, user_id |-> 1, event_type |-> "note"]
    /\ inflight # {}

RejectKinds ==
    {"not_op", "usage", "self", "target_not_player", "not_joined", "bad_dice",
     "turn_negative", "turn_not_yet", "note_too_long", "need_map"}

\* The command wrote nothing: no table, no browser, no supervisor, and no
\* message was sent for a browser.
Refused == UNCHANGED <<store, nav_cleanup_tasks, tasks, nextMsg>>

\* A relation command whose author or target does not qualify.
BadPair(c, u, t) == ~player_in_game(c, u) \/ t = NoUser \/ t = u \/ ~player_in_game(c, t)

\* C24: a step that ends in a refusal writes nothing, and every command with
\* such an author or such arguments ends in one: a command refused for its
\* author (a non-owner's reset, mup or add) or for its arguments (no or an ambiguous target, the author as target, a
\* target or an author who is no member, dice that do not parse, a turn that
\* is no integer, negative or not reached, an empty or over-long note, a
\* start without a map image) changes no table and creates no browser and no
\* supervisor.
C24_RejectedWritesNothing ==
    /\ [][reply'.kind \in RejectKinds => Refused]_vars
    /\ [][reply'.kind \notin RejectKinds =>
          /\ \A u \in {1, 2} :
               (HasGame("c1") /\ ~is_op(GameRow("c1"), u)) =>
                  /\ ~cmd_reset("c1", u)
                  /\ ~cmd_mup("c1", u, NoImage, 1, TRUE)
                  /\ \A target \in {NoUser, 2} : ~cmd_add("c1", u, target, "")
          /\ HasGame("c1") => ~cmd_add("c1", 1, NoUser, "")
          /\ \A u \in {2, 3}, t \in RejectTargets :
               (HasGame("c1") /\ BadPair("c1", u, t)) =>
                  /\ ~cmd_ally("c1", u, t)
                  /\ ~cmd_betray("c1", u, t)
                  /\ ~cmd_nap("c1", u, t)
                  /\ ~cmd_break("c1", u, t)
          /\ \A u \in {2, 3} :
               (HasGame("c1") /\ ~player_in_game("c1", u)) =>
                  /\ ~cmd_roll("c1", u, "r1")
                  /\ \A dice \in DiceArgs : ~cmd_dnd("c1", u, dice, "r2")
          /\ \A dice \in DiceArgs :
               (/\ HasGame("c1") /\ player_in_game("c1", 2)
                /\ (dice.kind # "dice" \/ dice.n \notin 1..100 \/ dice.size \notin 2..1000))
                  => ~cmd_dnd("c1", 2, dice, "r2")
          /\ \A arg \in TurnArgs :
               (/\ HasGame("c1")
                /\ (arg.kind = "bad" \/ (arg.kind = "int" /\ arg.turn \notin 0..TurnOf("c1"))))
                  => ~cmd_events("c1", arg, 1, TRUE)
          /\ \A u \in {2, 3}, note \in Notes :
               (HasGame("c1") /\ (note = 0 \/ note > 500 \/ ~player_in_game("c1", u)))
                  => ~cmd_say("c1", u, note, "sent")
          /\ ~HasGame("c1") => ~cmd_start("c1", 1, NoImage)
         ]_vars

\* A member's r.dnd with 101 dice was refused in a session at turn 1 that has
\* a browser with its supervisor, a roll and a note: all of it is still there.
C24_Witness ==
    /\ reply.kind = "bad_dice"
    /\ TurnOf("c1") = 1
    /\ Tracked(1) /\ tasks # {}
    /\ Len(rolls["c1"]) = 1
    /\ \E i \in 1..Len(events["c1"]) : events["c1"][i].event_type = "note"

\* The roll of value v by user u was appended to channel c's roll log, and its
\* event of the given type to the events log, both at the current turn;
\* nothing else changed.
RollRecorded(c, u, v, type) ==
    /\ rolls' = [rolls EXCEPT ![c] =
                    Append(@, [turn_number |-> TurnOf(c), user_id |-> u, roll_value |-> v])]
    /\ events' = [events EXCEPT ![c] =
                    Append(@, [turn_number |-> TurnOf(c), user_id |-> u, event_type |-> type])]
    /\ UNCHANGED <<games, players, turnplayers, turnmaps, alliances, naps, nav,
                   nav_cleanup_tasks, tasks>>

\* C25: a member's r.roll or r.dnd (with dice that parse) appends exactly one
\* roll of that member at the current turn and one event for it, and leaves
\* the turn counter, the roster, its snapshots, the maps, the relations and
\* all earlier rolls as they were.
C25_RollAppendsOne ==
    [][reply'.kind \in {"rolled", "dnd_rolled"} =>
          \A u \in RollUsers, value \in RollValues :
             (HasGame("c1") /\ player_in_game("c1", u)) =>
                /\ cmd_roll("c1", u, value) => RollRecorded("c1", u, value, "roll")
                /\ \A dice \in DiceArgs :
                      (parse_dice_value(dice).ok /\ cmd_dnd("c1", u, dice, "r2")) =>
                         RollRecorded("c1", u, "r2", "dnd_roll")
      ]_vars

\* Two rolls of user 2 in turn 0, the later one just recorded by r.dnd.
C25_Witness ==
    /\ reply.kind = "dnd_rolled"
    /\ rolls["c1"] = <<[turn_number |-> 0, user_id |-> 2, roll_value |-> "r1"],
                       [turn_number |-> 0, user_id |-> 2, roll_value |-> "r2"]>>

\* The positions in channel c's roll log of the rolls of user u in turn t.
RollsAt(c, t, u) ==
    {i \in 1..Len(rolls[c]) : rolls[c][i].turn_number = t /\ rolls[c][i].user_id = u}

\* The value of the earliest of them, None when there is none.
EarliestRoll(c, t, u) ==
    IF RollsAt(c, t, u) = {} THEN None
    ELSE rolls[c][CHOOSE i \in RollsAt(c, t, u) : \A j \in RollsAt(c, t, u) : i <= j].roll_value

RowsOf(c) ==
    <<{g \in games : g.channel_id = c}, players[c], rolls[c], events[c],
      {r \in alliances : r.channel_id = c}, {r \in naps : r.channel_id = c},
      {m \in turnmaps : m.channel_id = c}, turnplayers[c],
      {n \in nav : n.channel_id = c}>>

\* A command, a reaction, the return of a reaction's edit or a supervisor's
\* step for channel c.  A reaction event names the channel of the message it
\* was made on.
ActsOn(c) ==
    \/ cmd_start(c, 1, [id |-> "a0", fn |-> "f0"])
    \/ cmd_reset(c, 1)
    \/ cmd_mup(c, 1, NoImage, 0, TRUE)
    \/ cmd_game(c, 1, TRUE)
    \/ \E u \in {2, 3} : cmd_join(c, u, "")
    \/ cmd_ally(c, 2, 3)
    \/ cmd_nap(c, 3, 2)
    \/ cmd_roll(c, 2, "r1")
    \/ (\A n \in nav_get(1) : n.channel_id = c) /\ handle_nav_react(1, c, 2, "fwd", "ok")
    \/ (\E f \in inflight : f.channel_id = c) /\ handle_nav_react_edited("ok")
    \/ \E id \in TaskIds :
          /\ \E t \in tasks : t.id = id /\ t.channel_id = c
          /\ worker_loop(id, "ok") \/ worker_cleared(id) \/ worker_cancelled(id)

\* C27: a command, a reaction or a supervisor's step for one channel leaves
\* every row keyed by another channel as it was (a step that changes rows of
\* channel b is no step for another channel a and changes no row of a), and
\* what is rendered for a is the same before and after a step on b.
C27_ChannelsApart ==
    [][\A a \in Channels : \A b \in Channels \ {a} :
          RowsOf(b)' # RowsOf(b) =>
             /\ RowsOf(a)' = RowsOf(a)
             /\ ~ActsOn(a)
             /\ HasGame(a) =>
                   /\ render_turn_view(a, TurnOf(a))' = render_turn_view(a, TurnOf(a))
                   /\ render_events_view(a, TurnOf(a), 0)' = render_events_view(a, TurnOf(a), 0)
      ]_vars

\* The session of c1 has just been ended, its browser with it, while c2 holds
\* a session with two members, a roll, an alliance and a pact on offer.
C27_Witness ==
    /\ reply.kind = "ended"
    /\ ~HasGame("c1") /\ nav = {} /\ nextMsg > 1
    /\ HasGame("c2")
    /\ Len(players["c2"]) = 2 /\ Len(rolls["c2"]) = 1
    /\ \E r \in alliances : r.channel_id = "c2"
    /\ \E r \in naps : r.channel_id = "c2"

\* The record of message m in a browser table.
BrowserIn(tbl, m) == CHOOSE n \in tbl : n.message_id = m

C29_OneHeartbeat ==
    /\ [](Len(pings) <= 1)
    /\ [](ws \in {"sleeping", "connecting"} => pings = <<>>)
    /\ [][ws_connect(TRUE) => pings' = <<now + PingInterval>>]_vars
    /\ [][\A i \in 1..MaxPings :
             ws_ping_loop(i, TRUE) =>
                /\ ws = "streaming" /\ ws' = "streaming"
                /\ now >= pings[i]
                /\ pings' = <<now + PingInterval>>]_vars
    /\ [][(ws = "streaming" /\ ws' = "failed") => pings' = pings]_vars
    /\ [][(ws = "failed" /\ ws' = "sleeping") => pings' = <<>>]_vars

\* The second connection streams, twenty seconds and more after the first
\* was lost to a dispatch that raised, with one heartbeat task that has sent
\* a Ping.
C29_Witness ==
    /\ ws = "streaming"
    /\ reply.kind = "exception"
    /\ now = 30
    /\ pings = <<50>>

C31_OwnEventsIgnored ==
    /\ [][\A c \in Channels, cmd \in MessageCmds, sent_id \in 0..MaxMsgs :
            self_user_id = BotUser /\ handle_event_message(c, BotUser, cmd, sent_id)
                => /\ reply'.kind = "own_message"
                   /\ UNCHANGED <<store, nav_cleanup_tasks, tasks, nextMsg, cleared,
                                  inflight, touched>>]_vars
    /\ [][\A m \in MsgIds, c \in Channels, emoji_id \in Emojis, cl \in {"ok", "fail", "raise"} :
            self_user_id = BotUser /\ handle_nav_react(m, c, BotUser, emoji_id, cl)
                => UNCHANGED <<nav, nav_cleanup_tasks, tasks, cleared, inflight, touched,
                               ws>>]_vars

\* The bot's own reaction has arrived on a browser that is tracked, within
\* its window and watched by a supervisor, in a session at turn 1.
C31_Witness ==
    /\ self_user_id = BotUser
    /\ reply.kind = "react_own"
    /\ \E n \in nav_get(1) : now - n.updated_at <= NavWindow /\ n.displayed_turn = 0
    /\ \E g \in games : g.turn_number = 1
    /\ \E t \in tasks : t.message_id = 1 /\ ~t.cancelled

\* ---- C32 --------------------------------------------------------------------------
\* The snapshot of every turn up to the current one has been written: of turn
\* 0 by cmd_start, of every later turn by the cmd_mup that advanced to it.
\* C32: for every turn of a session whose snapshot has been written, also
\* when it was written while the roster was empty, the roster
\* render_turn_view shows is the roster the snapshot holds.
C32_WrittenSnapshotShown ==
    \A c \in Channels :
        HasGame(c) =>
            \A t \in 0..TurnOf(c) :
                render_turn_view(c, t).players = turnplayers_for_turn(c, t)

\* ---- C33 --------------------------------------------------------------------------
\* C33: the text either renderer returns is never longer than the budget of
\* 1900 characters, and a text that would be longer is returned shorter than
\* it would have been and with the truncation marker.
C33_WithinBudget ==
    text.view # "none" =>
        /\ text.len <= TextBudget
        /\ text.full > TextBudget => text.len < text.full /\ text.marked

\* ---- C34 --------------------------------------------------------------------------
IsPrefix(s, t) == Len(s) <= Len(t) /\ SubSeq(t, 1, Len(s)) = s

\* C34: while a session lasts (a step with the session before and after it),
\* the events of every turn and the rolls of every turn, as events_for_turn
\* and rolls_for_turn read them, are after the step what they were before it
\* or that with new entries at the end: none is changed, moved or removed.
C34_LogsAppendOnly ==
    [][\A c \in Channels :
          HasGame(c) /\ HasGame(c)' =>
              \A t \in 0..MaxTurn :
                  /\ IsPrefix(events_for_turn(c, t), events_for_turn(c, t)')
                  /\ IsPrefix(rolls_for_turn(c, t), rolls_for_turn(c, t)')]_vars

\* A session in turn 1 has events of both turns in its log and a roll.
C34_Witness ==
    /\ HasGame("c1")
    /\ TurnOf("c1") = 1
    /\ Len(events_for_turn("c1", 0)) >= 2
    /\ Len(events_for_turn("c1", 1)) >= 2
    /\ Len(rolls_for_turn("c1", 1)) >= 1

\* ---- C35 --------------------------------------------------------------------------
\* C35: in every state every browser record belongs to a session and points
\* into it: its turn is between 0 and the session's current turn, its page
\* between 0 and the last page of the events of that turn, and the page of a
\* game browser is 0.
C35_CursorValid ==
    \A n \in nav :
        /\ HasGame(n.channel_id)
        /\ 0 <= n.displayed_turn
        /\ n.displayed_turn <= TurnOf(n.channel_id)
        /\ 0 <= n.displayed_page
        /\ n.displayed_page <= events_page_count(n.channel_id, n.displayed_turn) - 1
        /\ n.view_type = "game" => n.displayed_page = 0

\* An events browser stands on the second page of turn 0 after the session
\* has advanced and a reaction has been answered with an edit.
C35_Witness ==
    /\ HasGame("c1")
    /\ TurnOf("c1") >= 1
    /\ reply.kind = "react_edited"
    /\ \E n \in nav : /\ n.view_type = "events"
                      /\ n.displayed_turn = 0
                      /\ n.displayed_page = 1

\* ---- C36 --------------------------------------------------------------------------
\* C36: while a session lasts, no step (join, rename, quit, force-add, roll,
\* turn advance) changes the snapshot rows of a turn the session has advanced
\* past; they go only when the session is deleted, and then all of them go.
C36_PastSnapshotsFrozen ==
    [][\A c \in Channels :
          /\ HasGame(c) /\ HasGame(c)' =>
                \A t \in 0..MaxTurn :
                    t < TurnOf(c) => turnplayers_for_turn(c, t)' = turnplayers_for_turn(c, t)
          /\ HasGame(c) /\ ~HasGame(c)' =>
                \A t \in 0..MaxTurn : turnplayers_for_turn(c, t)' = <<>>]_vars

\* A member has just changed the name in a session at turn 1 whose snapshot
\* of turn 0 holds the member under the old name.
C36_Witness ==
    /\ HasGame("c1")
    /\ TurnOf("c1") = 1
    /\ reply.kind = "renamed"
    /\ turnplayers_for_turn("c1", 0) # <<>>
    /\ turnplayers_for_turn("c1", 0) # turnplayers_for_turn("c1", 1)
    /\ turnplayers_for_turn("c1", 1) = players["c1"]

\* ---- C37 --------------------------------------------------------------------------
\* C37: a browser record comes into being only when a new message is
\* published: on a step after which a message has a record it did not have
\* before, the message is the one the server has just handed out; every
\* record is of a message handed out earlier, and ids are handed out once.
\* So a record that was removed (by its supervisor, by the handler's expiry
\* path or with its session) is not there again after any later step.
C37_NoResurrection ==
    /\ [](\A n \in nav : n.message_id < nextMsg)
    /\ [][nextMsg' >= nextMsg]_vars
    /\ [][\A m \in MsgIds :
            ~TrackedIn(nav, m) /\ TrackedIn(nav', m)
                => /\ m = nextMsg
                   /\ nextMsg' = nextMsg + 1
                   /\ reply'.kind \in {"game_view", "events_view", "turn_live"}]_vars

\* The edit of a reaction has come back with success after the supervisor
\* removed the record of its message: the position is stored nowhere.
C37_Witness ==
    /\ reply.kind = "react_edited"
    /\ nextMsg = 2
    /\ ~Tracked(1)
    /\ 1 \in cleared
    /\ HasGame("c1")

\* ---- C38 --------------------------------------------------------------------------
\* The record of message 1 has been idle for longer than the window.
Late == Tracked(1) /\ now - Browser(1).updated_at > NavWindow

\* A late reaction is not applied: nothing is rendered or edited, no record
\* changes its position or timestamp, no supervisor is started or cancelled.
NotApplied ==
    /\ inflight' = {}
    /\ nav' \subseteq nav
    /\ tasks' = tasks
    /\ nav_cleanup_tasks' = nav_cleanup_tasks
    /\ touched' = touched
    /\ UNCHANGED <<games, players, rolls, events, turnplayers, turnmaps, nextMsg>>

\* C38 as stated: a reaction handled when the record has been idle for more
\* than 30 s is not applied, and the handler clears the reactions of the
\* message and deletes the record.
C38_LateAlwaysCleared ==
    [][\A emoji_id \in Emojis, cl \in {"ok", "fail", "raise"} :
          Late /\ handle_nav_react(1, "c1", 2, emoji_id, cl)
              => NotApplied /\ 1 \in cleared' /\ ~TrackedIn(nav', 1)]_vars

\* C38, amended: a reaction handled when the record has been idle for more
\* than 30 s is not applied, whether or not a supervisor is still waiting:
\* the handler sends a clear-reactions request; when the request returns it
\* deletes the record, and the reactions are gone if the request succeeded;
\* when the request raises, the record stays and the exception leaves the
\* handler.  A recognized reaction handled when the record has been idle for
\* at most 30 s is applied: the record's timestamp is the time of the
\* reaction, a new supervisor replaces the old one, and when the reaction
\* leads to another (turn, page) the message is edited.
C38_LateReaction ==
    /\ [][\A emoji_id \in Emojis, cl \in {"ok", "fail", "raise"} :
            Late /\ handle_nav_react(1, "c1", 2, emoji_id, cl)
                => /\ NotApplied
                   /\ cleared' = IF cl = "ok" THEN cleared \cup {1} ELSE cleared
                   /\ cl # "raise" => ~TrackedIn(nav', 1) /\ ws' = ws
                   /\ cl = "raise" => nav' = nav /\ ws' = "failed"]_vars
    /\ [][\A emoji_id \in {"fwd", "back"}, cl \in {"ok", "fail", "raise"} :
            Tracked(1) /\ ~Late /\ inflight = {} /\ handle_nav_react(1, "c1", 2, emoji_id, cl)
                => /\ TrackedIn(nav', 1)
                   /\ BrowserIn(nav', 1).updated_at = now
                   /\ touched'[1] = now
                   /\ cleared' = cleared
                   /\ \E t \in tasks' \ tasks : t.message_id = 1 /\ ~t.cancelled
                   /\ \A t \in tasks : t.message_id = 1 =>
                          \E o \in tasks' : o.id = t.id /\ o.cancelled
                   /\ LET new == nav_target(Browser(1), "c1", emoji_id)
                      IN  IF new.turn = Browser(1).displayed_turn
                          THEN inflight' = {}
                          ELSE \E r \in inflight' : r.message_id = 1 /\ r.turn = new.turn]_vars

\* A reaction has come one second after the window's end while the
\* supervisor of the message had not yet run: the reactions are cleared and
\* the record is gone.
C38_Witness ==
    /\ reply.kind = "react_expired"
    /\ now = NavWindow + 1
    /\ ~Tracked(1)
    /\ 1 \in cleared
    /\ \E t \in tasks : t.message_id = 1 /\ ~t.cancelled /\ t.pc = "start"

\* ---- C39 --------------------------------------------------------------------------
\* C39: in every state the commands lead to, every alliance row and every
\* pact row has the status pending or accepted, two different users, and one
\* of the two as its proposer; and no command has been answered with
\* invalid_state (proposeOrAccept) or removed (break).
C39_RowsWellFormed ==
    /\ \A r \in alliances \cup naps :
           /\ r.status \in {"pending", "accepted"}
           /\ r.user_a # r.user_b
           /\ r.proposed_by \in {r.user_a, r.user_b}
    /\ reply.kind \notin {"invalid_state", "removed"}

\* An accepted alliance and a pending pact between the two members, the
\* pact's proposer having just proposed it again.
C39_Witness ==
    /\ \E r \in alliances : r.status = "accepted" /\ r.proposed_by = r.user_b
    /\ \E r \in naps : r.status = "pending" /\ r.proposed_by = r.user_a
    /\ reply.kind = "already_pending"

\* ---- C40 --------------------------------------------------------------------------
\* r.ally or r.nap of user u naming t, in channel c.
Offers(kind, c, u, t) == IF kind = "alliance" THEN cmd_ally(c, u, t) ELSE cmd_nap(c, u, t)

\* What a step may do to the rows of table `tbl` (afterwards `tbl2`): a pair
\* gets a row only as a pending one, by the command of one of the two naming
\* the other while both are members, with that user as proposer; a row keeps
\* its proposer and, once accepted, its status; and a pending row becomes
\* accepted only by the command of the user who is not its proposer, naming
\* the proposer, while both are members.
PairSteps(tbl, tbl2, kind) ==
    tbl2 # tbl =>
      \A c \in Channels, a \in Users :
        \A b \in Users \ {a} :
            LET before == PairRows(tbl, c, a, b)
                after == PairRows(tbl2, c, a, b)
            IN  /\ (before = {} /\ after # {}) =>
                      \E u \in {a, b} :
                          /\ CanCall(c, u, CHOOSE t \in {a, b} : t # u)
                          /\ Offers(kind, c, u, CHOOSE t \in {a, b} : t # u)
                          /\ \A r \in after : r.status = "pending" /\ r.proposed_by = u
                /\ \A r \in before :
                      \A r2 \in after :
                          /\ r2.proposed_by = r.proposed_by
                          /\ r.status = "accepted" => r2 = r
                          /\ (r.status = "pending" /\ r2.status # "pending") =>
                                LET u == CHOOSE t \in {a, b} : t # r.proposed_by
                                IN  /\ r2.status = "accepted"
                                    /\ CanCall(c, u, r.proposed_by)
                                    /\ Offers(kind, c, u, r.proposed_by)

\* C40: a relation of either kind is accepted only after each of the two
\* users has sent proposeOrAccept for the pair since the pair last had no
\* row, each time while both were members: the row is created, pending, by
\* the command of one of them and accepted by the command of the other, and
\* no other step (a command of the proposer, of a third user or of the owner)
\* creates a row, accepts one or changes its proposer.
C40_NoUnilateralAcceptance ==
    [][/\ PairSteps(alliances, alliances', "alliance")
       /\ PairSteps(naps, naps', "nap")]_vars

\* User 2, whom the owner force-added, has accepted the alliance the owner
\* offered, the owner having offered it twice.
C40_Witness ==
    /\ reply.kind = "accepted"
    /\ \E r \in alliances : r.status = "accepted" /\ r.proposed_by = 1
    /\ \E i \in 1..Len(events["c1"]) : events["c1"][i].event_type = "player_forced_add"
    /\ \E i \in 1..Len(events["c1"]) : events["c1"][i].event_type = "alliance_accepted"

====
